---- MODULE Spec2Model ----
(***************************************************************************)
(* Verification model of the SmartBeauty recommendation core               *)
(* (LLM-and-Recommendation-Sys): allergen resolution, concern weight       *)
(* aggregation, concept resolution, candidate scoring and the rule-scored  *)
(* recommendation paths.                                                   *)
(*                                                                         *)
(* Conventions                                                             *)
(*  - a Python str is a sequence of one-character strings;                 *)
(*  - a confidence, weight or score is an integer number of thousandths    *)
(*    (Unit = 1.0);                                                        *)
(*  - an embedding vector is an opaque identifier, and the cosine          *)
(*    similarity between two embeddings is read from a table;              *)
(*  - a Python exception leaving a function is the record field            *)
(*    raised = TRUE of the response.                                       *)
(***************************************************************************)
EXTENDS Integers, Sequences, FiniteSets, TLC

VARIABLES
    pc,              \* "idle": no request in flight, "done": a response is ready
    products_table,  \* rows of the products table of the store
    concepts_table,  \* rows of the concepts table of the store
    user_prefs,      \* the beauty-preferences record the preference API holds for the user
    users_table,     \* the row of the users table of the user: embedding_text and embedding
    app_state,       \* backend_api.app_state: the products_data loaded at startup
    default_detector,          \* the AllergenDetector singleton: its known_patterns
    concern_embeddings_cache,  \* ProductAnalysisModule.concern_embeddings_cache
    calls,           \* the calls in flight beside the request: each caller's position and locals
    request,         \* the operation called and its arguments
    response         \* what the operation returned (or that it raised)

vars == <<pc, products_table, concepts_table, user_prefs, users_table, app_state,
          default_detector, concern_embeddings_cache, calls, request, response>>

\* what lives in the process from one request to the next, beside the stores,
\* and the calls in flight
process == <<app_state, default_detector, concern_embeddings_cache, calls>>

\* no call is in flight beside the request
NoCalls == [c \in {} |-> [pc |-> "idle"]]

\* the users row where the request at hand leaves the table alone: the user
\* has a profile text and the embedding made of it
StoredUser ==
    [embedding_text |-> <<"[","S","k","i","n"," ","P","r","o","f","i","l","e","]","."," ","O","i","l","y"," ","s","k","i","n"," ","t","y","p","e","."," ","t","r","e","a","t","i","n","g"," ","a","c","n","e",".">>,
     embedding |-> "profile"]

(***************************************************************************)
(* Strings                                                                 *)
(***************************************************************************)
UpperChars == <<"A","B","C","D","E","F","G","H","I","J","K","L","M",
                "N","O","P","Q","R","S","T","U","V","W","X","Y","Z">>
LowerChars == <<"a","b","c","d","e","f","g","h","i","j","k","l","m",
                "n","o","p","q","r","s","t","u","v","w","x","y","z">>

IsUpper(c) == \E i \in 1..Len(UpperChars) : UpperChars[i] = c
IsLower(c) == \E i \in 1..Len(LowerChars) : LowerChars[i] = c

\* str.lower() on one character
LowerChar(c) ==
    IF IsUpper(c)
    THEN LowerChars[CHOOSE i \in 1..Len(UpperChars) : UpperChars[i] = c]
    ELSE c

\* str.lower()
Lower(s) == [i \in 1..Len(s) |-> LowerChar(s[i])]

\* Python's  t in s  on strings
IsSubstring(t, s) ==
    \E i \in 0..(Len(s) - Len(t)) : SubSeq(s, i + 1, i + Len(t)) = t

\* str.endswith
EndsWith(s, suffix) ==
    /\ Len(suffix) <= Len(s)
    /\ SubSeq(s, Len(s) - Len(suffix) + 1, Len(s)) = suffix

\* s[:-n] for 0 < n
DropLast(s, n) == IF n >= Len(s) THEN << >> ELSE SubSeq(s, 1, Len(s) - n)

RECURSIVE StripLeft(_)
StripLeft(s) == IF s # << >> /\ Head(s) = " " THEN StripLeft(Tail(s)) ELSE s

RECURSIVE StripRight(_)
StripRight(s) ==
    IF s # << >> /\ s[Len(s)] = " " THEN StripRight(SubSeq(s, 1, Len(s) - 1)) ELSE s

\* str.strip() (the texts of the model hold no other white space than " ")
Strip(s) == StripLeft(StripRight(s))

\* re.sub(r'([a-z])([A-Z])', r'\1 \2', s): a space at every lower/upper boundary
RECURSIVE CamelSpaced(_)
CamelSpaced(s) ==
    IF Len(s) < 2 THEN s
    ELSE IF IsLower(s[1]) /\ IsUpper(s[2])
         THEN <<s[1], " ">> \o CamelSpaced(Tail(s))
         ELSE <<s[1]>> \o CamelSpaced(Tail(s))

\* the elements of a sequence
Range(f) == {f[i] : i \in DOMAIN f}

RECURSIVE SeqOfSet(_)
SeqOfSet(S) == IF S = {} THEN << >>
               ELSE LET x == CHOOSE y \in S : TRUE IN <<x>> \o SeqOfSet(S \ {x})

RECURSIVE Flatten(_)
Flatten(ss) == IF ss = << >> THEN << >> ELSE Head(ss) \o Flatten(Tail(ss))

\* x = v; ... : F applied to the value of v, which is computed once
Once(v, F(_)) == CHOOSE r \in {F(x) : x \in {v}} : TRUE

(***************************************************************************)
(* mapping.py: the id enumerations (the entries the model's requests use)  *)
(***************************************************************************)
\* dict.get(key) of a missing key
None == <<"None">>

\* AllergenicIngredients, ids 101, 107 and 135
AllergenicIngredients ==
    (101 :> <<"L","i","n","a","l","o","o","l">>) @@ (107 :> <<"M","e","t","h","y","l","p","a","r","a","b","e","n">>) @@ (135 :> <<"L","e","m","o","n","O","i","l">>)

\* an id the enumeration does not hold
UnknownAllergenId == 999

(***************************************************************************)
(* AllergenDetector (allergen_detector.py)                                 *)
(***************************************************************************)
\* known_patterns: primary_terms, alternative_names and scientific_names of an entry
known_patterns ==
    (<<"m","e","t","h","y","l","p","a","r","a","b","e","n">> :>
        [primary_terms |-> <<<<"m","e","t","h","y","l","p","a","r","a","b","e","n">>, <<"m","e","t","h","y","l"," ","p","a","r","a","b","e","n">>>>,
         alternative_names |-> <<<<"m","e","t","h","y","l"," ","4","-","h","y","d","r","o","x","y","b","e","n","z","o","a","t","e">>>>,
         scientific_names |-> << >>])
    @@
    (<<"l","e","m","o","n","o","i","l">> :>
        [primary_terms |-> <<<<"l","e","m","o","n"," ","o","i","l">>>>,
         alternative_names |-> << >>,
         scientific_names |-> <<<<"c","i","t","r","u","s"," ","l","i","m","o","n">>>>])

\* the suffix table of _generate_fallback_terms
FallbackSuffixes == {<<"o","i","l">>, <<"a","c","i","d">>, <<"p","a","r","a","b","e","n">>, <<"a","l","c","o","h","o","l">>}

\* fallback terms made of the spaced form and the suffix forms alone, without
\* the lower-cased name
FallbackTermsWithoutBaseName(allergen_name) ==
    LET base_name == Lower(allergen_name)
        spaced_name == Lower(CamelSpaced(allergen_name))
        stem(suffix) == Strip(DropLast(base_name, Len(suffix)))
    IN  (IF spaced_name # base_name /\ Len(spaced_name) > Len(base_name)
         THEN {spaced_name} ELSE {})
        \cup UNION {{stem(suffix), stem(suffix) \o <<" ">> \o suffix} :
                      suffix \in {x \in FallbackSuffixes :
                                     /\ EndsWith(base_name, x)
                                     /\ Len(base_name) > Len(x) + 2}}

\* _generate_fallback_terms: the set behind list(set(terms))
_generate_fallback_terms(allergen_name) ==
    LET base_name == Lower(allergen_name)
        spaced_name == Lower(CamelSpaced(allergen_name))
        stem(suffix) == Strip(DropLast(base_name, Len(suffix)))
    IN  {base_name}
        \cup (IF spaced_name # base_name /\ Len(spaced_name) > Len(base_name)
              THEN {spaced_name} ELSE {})
        \cup UNION {{stem(suffix), stem(suffix) \o <<" ">> \o suffix} :
                      suffix \in {x \in FallbackSuffixes :
                                     /\ EndsWith(base_name, x)
                                     /\ Len(base_name) > Len(x) + 2}}

\* generate_search_terms: the set behind list(set(terms)); allergen_name is a str
generate_search_terms(allergen_name) ==
    LET allergen_key == Lower(allergen_name) IN
    IF allergen_key \in DOMAIN default_detector.known_patterns
    THEN LET pattern == default_detector.known_patterns[allergen_key] IN
         Range(pattern.primary_terms) \cup Range(pattern.alternative_names)
            \cup Range(pattern.scientific_names)
    ELSE _generate_fallback_terms(allergen_name)

\* detect_allergens matching the terms against the content as written
detect_allergens_as_written(product_content, excluded_allergens) ==
    IF \E i \in DOMAIN excluded_allergens : excluded_allergens[i] = None
    THEN [raised |-> TRUE, detected |-> {}]
    ELSE [raised |-> FALSE,
          detected |-> {a \in Range(excluded_allergens) :
                          \E term \in generate_search_terms(a) :
                              IsSubstring(term, product_content)}]

\* detect_allergens: allergen_name.lower() on None raises AttributeError, and the
\* loop visits every excluded allergen
detect_allergens(product_content, excluded_allergens) ==
    IF \E i \in DOMAIN excluded_allergens : excluded_allergens[i] = None
    THEN [raised |-> TRUE, detected |-> {}]
    ELSE [raised |-> FALSE,
          detected |-> {a \in Range(excluded_allergens) :
                          \E term \in generate_search_terms(a) :
                              IsSubstring(term, Lower(product_content))}]

\* is_safe_for_user
is_safe_for_user(product_content, excluded_allergens) ==
    LET d == detect_allergens(product_content, excluded_allergens) IN
    [raised |-> d.raised, safe |-> ~d.raised /\ d.detected = {}]

(***************************************************************************)
(* AllergenFilter (allergen_filtering.py)                                  *)
(***************************************************************************)
\* [allergen_mapping[id] for id in allergen_ids if id in allergen_mapping]
RECURSIVE KnownAllergenNames(_)
KnownAllergenNames(allergen_ids) ==
    IF allergen_ids = << >> THEN << >>
    ELSE (IF Head(allergen_ids) \in DOMAIN AllergenicIngredients
          THEN <<AllergenicIngredients[Head(allergen_ids)]>> ELSE << >>)
         \o KnownAllergenNames(Tail(allergen_ids))

\* utility.get_preference.get_user_analysis: the stored record, or nothing (the
\* function falls off its end) when the request to the preference API fails
get_user_analysis(stored, fetch_ok) ==
    IF fetch_ok THEN [ok |-> TRUE, data |-> stored] ELSE [ok |-> FALSE]

\* every declared id taken for an allergen, an id outside the mapping (the 0
\* sentinel included) for the mapping's first entry
GetUserAllergensNamingEveryId(preferences) ==
    IF ~preferences.ok THEN << >>
    ELSE LET ids == preferences.data.allergenicIngredients
             first == CHOOSE k \in DOMAIN AllergenicIngredients :
                          \A j \in DOMAIN AllergenicIngredients : k <= j
         IN [i \in 1..Len(ids) |->
                AllergenicIngredients[IF ids[i] \in DOMAIN AllergenicIngredients
                                      THEN ids[i] ELSE first]]

\* get_user_allergens: preferences is what get_user_analysis returned
get_user_allergens(preferences) ==
    IF ~preferences.ok THEN << >>
    ELSE KnownAllergenNames(preferences.data.allergenicIngredients)

\* AllergenFilter.generate_search_terms followed by the collection loop of
\* generate_allergen_filter_sql: every search term of every allergen
all_search_terms(allergen_names) ==
    UNION {generate_search_terms(a) : a \in Range(allergen_names)}

\* generate_allergen_filter_sql(search_terms, exclude_unsafe=True): the parameter
\* list; an empty list stands for the empty where-clause ""
generate_allergen_filter_sql(allergen_names) ==
    SeqOfSet(all_search_terms(allergen_names))

\* ProductAnalysisModule._get_allergen_filter
_get_allergen_filter(preferences) ==
    LET allergen_names == get_user_allergens(preferences) IN
    IF allergen_names = << >> THEN << >>
    ELSE generate_allergen_filter_sql(allergen_names)

\* SQL: ingredients_text ILIKE '%term%' (three-valued; the terms hold no LIKE wildcard)
ILike(text, term) ==
    IF text = None THEN "NULL"
    ELSE IF IsSubstring(Lower(term), Lower(text)) THEN "TRUE" ELSE "FALSE"

\* SQL: NOT (ingredients_text ILIKE %s OR ...) with the parameters of the filter
AllergenWhere(ingredients_text, allergen_params) ==
    LET vals == {ILike(ingredients_text, allergen_params[i]) : i \in DOMAIN allergen_params}
        disj == IF "TRUE" \in vals THEN "TRUE"
                ELSE IF "NULL" \in vals THEN "NULL" ELSE "FALSE"
    IN  IF disj = "TRUE" THEN "FALSE" ELSE IF disj = "NULL" THEN "NULL" ELSE "TRUE"

(***************************************************************************)
(* ConcernWeightAggregator: ProductAnalysisModule._get_filtered_analysis,  *)
(* _map_analysis_to_concerns (analysis.py), _map_pref_concerns and the     *)
(* merge loop of run_recommender (analysis_preference.py)                  *)
(***************************************************************************)
\* 1.0 in thousandths
Unit == 1000

\* BeautyPreferencesSkinConcern, ids 1, 5, 6, 7, 8 and 15
BeautyPreferencesSkinConcern ==
    (1 :> <<"A","c","n","e","B","l","e","m","i","s","h","e","s">>) @@ (5 :> <<"D","a","r","k","C","i","r","c","l","e","s">>)
        @@ (6 :> <<"R","e","d","n","e","s","s">>) @@ (7 :> <<"O","i","l","i","n","e","s","s">>)
        @@ (8 :> <<"D","r","y","n","e","s","s">>) @@ (15 :> <<"P","u","f","f","i","n","e","s","s">>)

\* BeautyPreferencesSkinType, ids 2 and 4
BeautyPreferencesSkinType == (2 :> <<"D","r","y">>) @@ (4 :> <<"O","i","l","y">>)

\* the normalization rule with a divisor of 10
NormalizeConfidenceByTen(confidence) ==
    IF confidence > Unit THEN confidence \div 10 ELSE confidence

\* analysis.py:149-152, on thousandths: confidence / 100.0 when confidence > 1
\* (exact on the model's values, which above 1.0 are multiples of 0.1)
NormalizeConfidence(confidence) ==
    IF confidence > Unit THEN confidence \div 100 ELSE confidence

\* _get_filtered_analysis keeping only the detections above the threshold
RECURSIVE FilteredAnalysisAbove(_, _)
FilteredAnalysisAbove(raw_analysis, confidence_threshold) ==
    IF raw_analysis = << >> THEN << >>
    ELSE LET item == Head(raw_analysis)
             normalized_confidence == NormalizeConfidence(item.confidence)
         IN (IF normalized_confidence > confidence_threshold
             THEN <<[analysisType |-> item.analysisType,
                     confidence |-> item.confidence,
                     normalized_confidence |-> normalized_confidence]>>
             ELSE << >>)
            \o FilteredAnalysisAbove(Tail(raw_analysis), confidence_threshold)

\* _get_filtered_analysis: raw_analysis is the 'data' list of the analysis API
RECURSIVE _get_filtered_analysis(_, _)
_get_filtered_analysis(raw_analysis, confidence_threshold) ==
    IF raw_analysis = << >> THEN << >>
    ELSE LET item == Head(raw_analysis)
             normalized_confidence == NormalizeConfidence(item.confidence)
         IN (IF normalized_confidence >= confidence_threshold
             THEN <<[analysisType |-> item.analysisType,
                     confidence |-> item.confidence,
                     normalized_confidence |-> normalized_confidence]>>
             ELSE << >>)
            \o _get_filtered_analysis(Tail(raw_analysis), confidence_threshold)

\* d[key] = weight: the assignment without the accumulation
AccumulateOverwrite(table, key, weight) ==
    [k \in DOMAIN table \cup {key} |-> IF k = key THEN weight ELSE table[k]]

\* d[key] = d.get(key, 0) + weight
Accumulate(table, key, weight) ==
    [k \in DOMAIN table \cup {key} |->
        (IF k \in DOMAIN table THEN table[k] ELSE 0) + (IF k = key THEN weight ELSE 0)]

\* the empty dict: a function of no key
EmptyTable == [k \in {} |-> 0]

\* the key and the weight one filtered detection adds (analysis.py:171-176)
AnalysisContribution(item) ==
    [key |-> Lower(item.analysisType), weight |-> item.normalized_confidence]

\* the keys and weights _map_pref_concerns adds, in its order: the known skin
\* concern ids, then the known skin type id
RECURSIVE PrefConcernContributions(_)
PrefConcernContributions(skinConcerns) ==
    IF skinConcerns = << >> THEN << >>
    ELSE (IF Head(skinConcerns) \in DOMAIN BeautyPreferencesSkinConcern
          THEN <<[key |-> Lower(BeautyPreferencesSkinConcern[Head(skinConcerns)]),
                  weight |-> Unit]>>
          ELSE << >>)
         \o PrefConcernContributions(Tail(skinConcerns))

PrefContributions(prefs) ==
    PrefConcernContributions(prefs.skinConcerns)
    \o (IF prefs.skinType \in DOMAIN BeautyPreferencesSkinType
        THEN <<[key |-> Lower(BeautyPreferencesSkinType[prefs.skinType]),
                weight |-> Unit]>>
        ELSE << >>)

\* the table after each accumulation of a list of contributions, starting from table
RECURSIVE AccumulateSteps(_, _)
AccumulateSteps(table, contributions) ==
    IF contributions = << >> THEN << >>
    ELSE LET next == Accumulate(table, Head(contributions).key, Head(contributions).weight)
         IN <<next>> \o AccumulateSteps(next, Tail(contributions))

LastOr(steps, default) == IF steps = << >> THEN default ELSE steps[Len(steps)]

\* _map_analysis_to_concerns
AnalysisContributions(analysis_data) ==
    [i \in 1..Len(analysis_data) |-> AnalysisContribution(analysis_data[i])]

_map_analysis_to_concerns(analysis_data) ==
    LastOr(AccumulateSteps(EmptyTable, AnalysisContributions(analysis_data)), EmptyTable)

\* _map_pref_concerns
_map_pref_concerns(prefs) ==
    LastOr(AccumulateSteps(EmptyTable, PrefContributions(prefs)), EmptyTable)

\* the merge loop of run_recommender (analysis_preference.py:257-258): one
\* accumulation per key of pref_concerns
MergeContributions(pref_concerns) ==
    LET keys == SeqOfSet(DOMAIN pref_concerns) IN
    [i \in 1..Len(keys) |-> [key |-> keys[i], weight |-> pref_concerns[keys[i]]]]

MergeConcerns(concern_scores, pref_concerns) ==
    LastOr(AccumulateSteps(concern_scores, MergeContributions(pref_concerns)),
           concern_scores)

(***************************************************************************)
(* ConceptResolver: ProductAnalysisModule._get_concern_embeddings and      *)
(* _is_concept_match (analysis.py)                                         *)
(***************************************************************************)
\* the order of the characters in ORDER BY name (code point order)
CharOrder ==
    <<" ", "-", "0", "1", "2", "3", "4", "5", "6", "7", "8", "9">> \o UpperChars \o <<"_">> \o LowerChars

CharRank(c) == CHOOSE i \in 1..Len(CharOrder) : CharOrder[i] = c

RECURSIVE StrLess(_, _)
StrLess(a, b) ==
    IF b = << >> THEN FALSE
    ELSE IF a = << >> THEN TRUE
    ELSE IF Head(a) = Head(b) THEN StrLess(Tail(a), Tail(b))
    ELSE CharRank(Head(a)) < CharRank(Head(b))

\* SELECT name, embedding FROM concepts WHERE embedding IS NOT NULL ORDER BY name
RECURSIVE OrderByName(_)
OrderByName(rows) ==
    IF rows = {} THEN << >>
    ELSE LET first == CHOOSE r \in rows :
                         \A q \in rows : q.name = r.name \/ StrLess(r.name, q.name)
         IN <<first>> \o OrderByName(rows \ {first})

available_concepts(concepts) == OrderByName({r \in concepts : r.embedding # "NULL"})

\* s.lower().replace(' ', '').replace('-', '').replace('_', '')
RECURSIVE RemoveSeparators(_)
RemoveSeparators(s) ==
    IF s = << >> THEN << >>
    ELSE (IF Head(s) \in {" ", "-", "_"} THEN << >> ELSE <<Head(s)>>)
         \o RemoveSeparators(Tail(s))

NormalizeName(s) == RemoveSeparators(Lower(s))

\* the mappings of _is_concept_match
concept_mappings ==
    (<<"d","a","r","k","c","i","r","c","l","e","s">> :> <<"d","a","r","k","c","i","r","c","l","e","s">>) @@ (<<"p","u","f","f","i","n","e","s","s">> :> <<"e","y","e","b","a","g">>)
    @@ (<<"f","i","n","e","l","i","n","e","s">> :> <<"w","r","i","n","k","l","e","s">>) @@ (<<"f","i","n","e","l","i","n","e","s","w","r","i","n","k","l","e","s">> :> <<"w","r","i","n","k","l","e","s">>)
    @@ (<<"a","c","n","e","b","l","e","m","i","s","h","e","s">> :> <<"a","c","n","e">>) @@ (<<"b","l","e","m","i","s","h","e","s">> :> <<"a","c","n","e">>)

_is_concept_match(concern, concept) ==
    concern \in DOMAIN concept_mappings /\ concept_mappings[concern] = concept

\* the three tests of the inner loop (analysis.py:215-228), any of which ends it
ConceptMatches(normalized_concern, normalized_concept) ==
    \/ normalized_concern = normalized_concept
    \/ IsSubstring(normalized_concern, normalized_concept)
    \/ IsSubstring(normalized_concept, normalized_concern)
    \/ _is_concept_match(normalized_concern, normalized_concept)

\* the concept the inner loop stops at: the first row, in name order, that
\* passes one of the tests; 0 when the loop ends without a break
MatchedConcept(concern, available) ==
    LET hits == {i \in 1..Len(available) :
                    ConceptMatches(NormalizeName(concern), NormalizeName(available[i].name))}
    IN IF hits = {} THEN 0 ELSE CHOOSE i \in hits : \A j \in hits : i <= j

\* a resolver that gives a concern without a match the first available concept
ConcernEmbeddingsWithDefault(concern_names, concepts, query_ok) ==
    IF ~query_ok THEN [c \in {} |-> "NULL"]
    ELSE LET available == available_concepts(concepts)
             matched == [n \in concern_names |-> MatchedConcept(n, available)]
         IN [c \in {n \in concern_names : available # << >>} |->
                available[IF matched[c] # 0 THEN matched[c] ELSE 1].embedding]
\* _get_concern_embeddings: concern name -> embedding, for the concerns that
\* matched; a failed query is caught and leaves the dict empty
_get_concern_embeddings(concern_names, concepts, query_ok) ==
    IF ~query_ok THEN [c \in {} |-> "NULL"]
    ELSE LET available == available_concepts(concepts)
             matched == [n \in concern_names |-> MatchedConcept(n, available)]
         IN [c \in {n \in concern_names : matched[n] # 0} |->
                available[matched[c]].embedding]

(***************************************************************************)
(* The store: products and the similarity of embeddings                    *)
(***************************************************************************)
\* rows the products table may hold. stock_status 0 is in stock; an embedding
\* is an identifier, "NULL" when the row has none; ingredients_text None is NULL
ProductPool ==
    { [id |-> 1, name |-> <<"S","e","r","u","m"," ","A">>, ingredients_text |-> <<"A","q","u","a",","," ","M","e","t","h","y","l","p","a","r","a","b","e","n">>,
       price |-> 10, stock_status |-> 0, embedding |-> "P1"],
      [id |-> 2, name |-> <<"C","r","e","a","m"," ","B">>, ingredients_text |-> <<"a","q","u","a",","," ","g","l","y","c","e","r","i","n">>,
       price |-> 20, stock_status |-> 0, embedding |-> "P2"],
      [id |-> 3, name |-> <<"S","e","r","u","m"," ","C">>, ingredients_text |-> <<"A","q","u","a",","," ","L","i","n","a","l","o","o","l">>,
       price |-> 5, stock_status |-> 1, embedding |-> "P3"],
      [id |-> 4, name |-> <<"G","e","l"," ","D">>, ingredients_text |-> <<"a","q","u","a">>,
       price |-> 30, stock_status |-> 0, embedding |-> "P4"],
      [id |-> 5, name |-> <<"O","i","l"," ","E">>, ingredients_text |-> <<"a","q","u","a",","," ","M","E","T","H","Y","L"," ","P","A","R","A","B","E","N">>,
       price |-> 8, stock_status |-> 0, embedding |-> "P5"],
      [id |-> 6, name |-> <<"M","a","s","k"," ","F">>, ingredients_text |-> None,
       price |-> 12, stock_status |-> 0, embedding |-> "P6"],
      [id |-> 7, name |-> <<"B","a","l","m"," ","G">>, ingredients_text |-> <<"a","q","u","a">>,
       price |-> 15, stock_status |-> 0, embedding |-> "NULL"] }

\* rows of the concepts table
ConceptPool ==
    { [name |-> <<"A","c","n","e">>, embedding |-> "E_acne"],
      [name |-> <<"A","c","n","e"," ","S","c","a","r","s">>, embedding |-> "E_acnescars"],
      [name |-> <<"B","l","e","m","i","s","h","e","s">>, embedding |-> "E_blemishes"],
      [name |-> <<"D","r","y","n","e","s","s">>, embedding |-> "E_dryness"],
      [name |-> <<"E","y","e","b","a","g">>, embedding |-> "E_eyebag"],
      [name |-> <<"O","i","l","y">>, embedding |-> "NULL"] }

\* 1.0 as a similarity, in hundredths
SimUnit == 100

\* 1 - (embedding <=> vector), in hundredths, of a product embedding and a
\* concept embedding; the last column is that of the product embedding and
\* users.embedding
SimilarityRows ==
    ("P1" :> [E_acne |-> 90, E_acnescars |-> 85, E_blemishes |-> 70, E_dryness |-> 20, E_eyebag |-> 10, profile |-> 10])
 @@ ("P2" :> [E_acne |-> 80, E_acnescars |-> 60, E_blemishes |-> 65, E_dryness |-> 60, E_eyebag |-> 20, profile |-> 30])
 @@ ("P3" :> [E_acne |-> 70, E_acnescars |-> 50, E_blemishes |-> 60, E_dryness |-> 90, E_eyebag |-> 30, profile |-> 50])
 @@ ("P4" :> [E_acne |-> 60, E_acnescars |-> 40, E_blemishes |-> 55, E_dryness |-> 30, E_eyebag |-> 40, profile |-> 95])
 @@ ("P5" :> [E_acne |-> 50, E_acnescars |-> 30, E_blemishes |-> 50, E_dryness |-> 50, E_eyebag |-> 50, profile |-> 20])
 @@ ("P6" :> [E_acne |-> 50, E_acnescars |-> 20, E_blemishes |-> 45, E_dryness |-> 40, E_eyebag |-> 60, profile |-> 99])

Similarity(product_embedding, vector) == SimilarityRows[product_embedding][vector]

(***************************************************************************)
(* Queries: ORDER BY score DESC LIMIT n, and Python's list.sort            *)
(***************************************************************************)
Min(a, b) == IF a <= b THEN a ELSE b

Take(s, n) == SubSeq(s, 1, Min(n, Len(s)))

\* ORDER BY score DESC LIMIT n over the rows of the given ids: every list of
\* ids the store may answer with. Rows of equal score come in the store's row
\* order, which the query does not fix
RECURSIVE OrderByScoreDescLimit(_, _, _)
OrderByScoreDescLimit(ids, score, limit) ==
    IF ids = {} \/ limit <= 0 THEN {<< >>}
    ELSE UNION { {<<r>> \o rest : rest \in OrderByScoreDescLimit(ids \ {r}, score, limit - 1)} :
                 r \in {x \in ids : \A y \in ids : score[y] <= score[x]} }

\* the list without its i-th element
RemoveAt(s, i) == SubSeq(s, 1, i - 1) \o SubSeq(s, i + 1, Len(s))

\* list.sort(key=..., reverse=True) and sorted(..., reverse=True): stable, the
\* elements of equal key keep their order. keys[i] is the key of s[i]
RECURSIVE SortDescStable(_, _)
SortDescStable(s, keys) ==
    IF s = << >> THEN << >>
    ELSE LET i == CHOOSE j \in 1..Len(s) :
                     /\ \A k \in 1..Len(s) : keys[k] <= keys[j]
                     /\ \A k \in 1..(j - 1) : keys[k] < keys[j]
         IN <<s[i]>> \o SortDescStable(RemoveAt(s, i), RemoveAt(keys, i))

(***************************************************************************)
(* CandidateScorer: ProductAnalysisModule._calculate_product_scores        *)
(* (analysis.py), _fetch_candidate_products (analysis_preference.py) and   *)
(* ProfileProductRecommendation._calculate_product_similarities            *)
(* (profile_product_rec.py)                                                *)
(***************************************************************************)
\* an optional argument: << >> is None, <<v>> is the value v
NoValue == << >>
Some(v) == <<v>>

\* dict.get(key, default)
TableGet(table, key, default) == IF key \in DOMAIN table THEN table[key] ELSE default

RECURSIVE SumOver(_, _)
SumOver(S, f) ==
    IF S = {} THEN 0
    ELSE LET x == CHOOSE y \in S : TRUE IN f[x] + SumOver(S \ {x}, f)

\* the scoring formula: the sum over the resolved concerns of
\* weight * (1 - (embedding <=> concept vector))
ScoringFormula(embedding, concern_embeddings, weight) ==
    SumOver(DOMAIN concern_embeddings,
            [c \in DOMAIN concern_embeddings |->
                weight[c] * Similarity(embedding, concern_embeddings[c])])

\* a WHERE clause keeps the rows on which every condition is TRUE
AllergenClause(row, allergen_params) ==
    allergen_params = << >> \/ AllergenWhere(row.ingredients_text, allergen_params) = "TRUE"

\* analysis.py:324-337 and profile_product_rec.py:229-243: "if max_price:" adds
\* the price condition
WhereTruthyPrice(row, allergen_params, max_price, include_out_of_stock) ==
    /\ row.embedding # "NULL"
    /\ AllergenClause(row, allergen_params)
    /\ (max_price # NoValue /\ max_price[1] # 0) => row.price <= max_price[1]
    /\ ~include_out_of_stock => row.stock_status = 0

\* analysis_preference.py:178-187: "if max_price is not None:" adds the price condition
WherePriceGiven(row, allergen_params, max_price, include_out_of_stock) ==
    /\ row.embedding # "NULL"
    /\ ~include_out_of_stock => row.stock_status = 0
    /\ max_price # NoValue => row.price <= max_price[1]
    /\ AllergenClause(row, allergen_params)

\* the row of the products table with the given id
ProductById(products, id) == CHOOSE r \in products : r.id = id

\* _calculate_product_scores: the lists it may return
_calculate_product_scores(concern_embeddings, concern_scores, allergen_params, top_n, max_price, include_out_of_stock, products, query_ok) ==
    IF DOMAIN concern_embeddings = {} THEN {<< >>}
    ELSE IF ~query_ok THEN {<< >>}
    ELSE LET weight == [c \in DOMAIN concern_embeddings |-> TableGet(concern_scores, c, 0)]
             rows == {r \in products :
                         WhereTruthyPrice(r, allergen_params, max_price, include_out_of_stock)}
             score == [i \in {r.id : r \in rows} |->
                          ScoringFormula(ProductById(rows, i).embedding,
                                         concern_embeddings, weight)]
         IN { [i \in 1..Len(s) |-> [id |-> s[i], total_score |-> score[s[i]]]] :
                s \in OrderByScoreDescLimit(DOMAIN score, score, top_n) }

\* _fetch_candidate_products: what it may return; the query runs outside any
\* try block, so that a failing query raises
_fetch_candidate_products(concern_embeddings, concern_scores, allergen_params, max_price, include_out_of_stock, top_n, products, query_ok) ==
    IF DOMAIN concern_embeddings = {} THEN {[raised |-> FALSE, rows |-> << >>]}
    ELSE IF ~query_ok THEN {[raised |-> TRUE, rows |-> << >>]}
    ELSE LET weight == [c \in DOMAIN concern_embeddings |->
                           TableGet(concern_scores, Lower(c), Unit)]
             rows == {r \in products :
                         WherePriceGiven(r, allergen_params, max_price, include_out_of_stock)}
             score == [i \in {r.id : r \in rows} |->
                          ScoringFormula(ProductById(rows, i).embedding,
                                         concern_embeddings, weight)]
         IN { [raised |-> FALSE,
               rows |-> [i \in 1..Len(s) |->
                           [id |-> s[i], name |-> ProductById(rows, s[i]).name,
                            embedding_str |-> ProductById(rows, s[i]).embedding,
                            concern_score |-> score[s[i]]]]] :
                s \in OrderByScoreDescLimit(DOMAIN score, score, top_n) }

\* _calculate_product_similarities: the lists it may return
_calculate_product_similarities(user_embedding, allergen_params, top_n, max_price, include_out_of_stock, products, query_ok) ==
    IF user_embedding = "NULL" THEN {<< >>}
    ELSE IF ~query_ok THEN {<< >>}
    ELSE LET rows == {r \in products :
                         WhereTruthyPrice(r, allergen_params, max_price, include_out_of_stock)}
             score == [i \in {r.id : r \in rows} |->
                          Similarity(ProductById(rows, i).embedding, user_embedding)]
         IN { [i \in 1..Len(s) |-> [id |-> s[i], similarity_score |-> score[s[i]]]] :
                s \in OrderByScoreDescLimit(DOMAIN score, score, top_n) }

(***************************************************************************)
(* RecommendationOrchestrator: analyze_and_recommend (analysis.py),        *)
(* run_recommender (analysis_preference.py) and                            *)
(* recommend_products (profile_product_rec.py)                             *)
(***************************************************************************)
\* 1.0 as a mixing weight, in tenths
AlphaUnit == 10

\* "get_preference(user_id) or {}": a record whose every field is unset
EmptyPrefs == [allergenicIngredients |-> << >>, skinConcerns |-> << >>, skinType |-> 0]

PrefsOrEmpty(lookup) == IF lookup.ok THEN lookup.data ELSE EmptyPrefs

\* a module that keeps every resolved embedding in its cache
CacheKeepingResolved(cache, concern_embeddings) == concern_embeddings @@ cache

\* self.concern_embeddings_cache after _get_concern_embeddings has resolved
\* concern_embeddings: the method fills a local dict and returns it, the cache
\* of __init__ is assigned nowhere else
CacheAfterResolution(cache, concern_embeddings) == cache

\* analyze_and_recommend: the responses it may give. a.raw_analysis is the
\* 'data' list of the analysis API, lookup what the preference API answered
analyze_and_recommend(a, lookup, concepts, products) ==
    LET filtered_analysis == _get_filtered_analysis(a.raw_analysis, a.confidence_threshold)
        steps == AccumulateSteps(EmptyTable, AnalysisContributions(filtered_analysis))
        concern_scores == _map_analysis_to_concerns(filtered_analysis)
        concern_embeddings ==
            _get_concern_embeddings(DOMAIN concern_scores, concepts, a.concept_query_ok)
        allergen_params == _get_allergen_filter(lookup)
    IN IF filtered_analysis = << >>
       THEN {[raised |-> FALSE, error |-> "none", products |-> << >>,
              filtered_analysis |-> << >>,
              concern_scores |-> EmptyTable, weight_steps |-> << >>,
              concern_embeddings |-> [c \in {} |-> "NULL"]]}
       ELSE {[raised |-> FALSE, error |-> "none", products |-> ps,
              filtered_analysis |-> filtered_analysis,
              concern_scores |-> concern_scores, weight_steps |-> steps,
              concern_embeddings |-> concern_embeddings] :
                ps \in _calculate_product_scores(concern_embeddings, concern_scores,
                          allergen_params, a.top_n, a.max_price, a.include_out_of_stock,
                          products, a.candidate_query_ok)}

\* 1.0 as the weight beta, in millionths: fine enough for sums that differ
\* from 1.0 by less than the tolerance of np.isclose
BetaUnit == 1000000

\* a tenth, the unit of alpha, in millionths
TenthOfBeta == BetaUnit \div AlphaUnit

\* alpha * concern_score in hundred-millionths
ConcernScale == BetaUnit \div (AlphaUnit * Unit)

\* atol + rtol * |1.0| of np.isclose, 1e-8 + 1e-5, in whole millionths
IsCloseTolerance == 10

\* a comparison that takes every sum for 1.0
IsCloseWhatever(a, b) == TRUE

\* np.isclose(a, b) for b = 1.0, a and b in millionths
np_isclose(a, b) == a - b <= IsCloseTolerance /\ b - a <= IsCloseTolerance

\* np.dot(a, b) / (norm(a) * norm(b)) of the profile vector and a product
\* embedding, in hundredths; no vector of the pool has norm 0
ProfileCosine ==
    ("P1" :> -80) @@ ("P2" :> -40) @@ ("P3" :> 0) @@ ("P4" :> 90) @@ ("P5" :> -60)
        @@ ("P6" :> 98)

\* the cosine as it is, from -1 to 1
CosineUnscaled(a, b) == IF a = "None" \/ b = "None" THEN 0 ELSE ProfileCosine[b]

\* _cosine_sim(a, b): 0.5 + 0.5 * cos, and 0.0 when a vector is missing; a is
\* the profile vector, b the vector of the product's embedding_str
_cosine_sim(a, b) ==
    IF a = "None" \/ b = "None" THEN 0 ELSE (SimUnit + ProfileCosine[b]) \div 2

\* the blend with the two weights exchanged
BlendedProductWeightsSwapped(p, pref_vec, alpha, beta) ==
    LET pref_sim == IF pref_vec # "None" THEN _cosine_sim(pref_vec, p.embedding_str)
                    ELSE SimUnit \div 2
    IN [id |-> p.id, name |-> p.name, concern_score |-> p.concern_score,
        pref_score |-> pref_sim,
        final_score |-> (beta \div TenthOfBeta) * p.concern_score * ConcernScale
                          + alpha * TenthOfBeta * pref_sim]
\* the blending loop of run_recommender (analysis_preference.py:291-306):
\* pref_sim is 0.5 without a profile vector; final_score in hundred-millionths
BlendedProduct(p, pref_vec, alpha, beta) ==
    LET pref_sim == IF pref_vec # "None" THEN _cosine_sim(pref_vec, p.embedding_str)
                    ELSE SimUnit \div 2
    IN [id |-> p.id, name |-> p.name, concern_score |-> p.concern_score,
        pref_score |-> pref_sim,
        final_score |-> alpha * p.concern_score * ConcernScale + beta * pref_sim]

\* the post-filter by product_type (analysis_preference.py:313-323); the rows
\* carry no category, and the descriptions of the pool are empty
RECURSIVE FilterByProductType(_, _)
FilterByProductType(ps, product_type) ==
    IF ps = << >> THEN << >>
    ELSE (IF IsSubstring(Lower(product_type), Lower(Head(ps).name))
          THEN <<Head(ps)>> ELSE << >>)
         \o FilterByProductType(Tail(ps), product_type)

\* _warn_if_missing_embedding: the stores it reads. What it reads is only
\* printed, and an exception of the store is swallowed
_warn_if_missing_embedding == <<"users">>

\* run_recommender: the responses it may give. accesses lists the stores and
\* the APIs the run has turned to, in the order of the calls; the profile
\* vector "None" stands for a profile document without tokens, for which
\* _build_pref_vector sends no query
run_recommender(a, lookup, concepts, products) ==
    LET beta == IF a.beta = NoValue THEN BetaUnit - a.alpha * TenthOfBeta ELSE a.beta[1]
        analysis_rows == _get_filtered_analysis(a.raw_analysis, a.confidence_threshold)
        analysis_steps == AccumulateSteps(EmptyTable, AnalysisContributions(analysis_rows))
        analysis_scores == _map_analysis_to_concerns(analysis_rows)
        prefs == PrefsOrEmpty(lookup)
        pref_concerns == _map_pref_concerns(prefs)
        merge_steps == AccumulateSteps(analysis_scores, MergeContributions(pref_concerns))
        concern_scores == MergeConcerns(analysis_scores, pref_concerns)
        concern_embeddings ==
            _get_concern_embeddings(DOMAIN concern_scores, concepts, a.concept_query_ok)
        allergen_params == _get_allergen_filter(lookup)
        blended(rows) == [i \in 1..Len(rows) |-> BlendedProduct(rows[i], a.pref_vec, a.alpha, beta)]
        final_scores(ps) == [i \in 1..Len(ps) |-> ps[i].final_score]
        trimmed(rows) == Take(SortDescStable(blended(rows), final_scores(blended(rows))),
                              a.top_n)
        accesses ==
            _warn_if_missing_embedding
            \o <<"analysis API", "preference API", "concepts", "preference API">>
            \o (IF a.pref_vec # "None" THEN <<"concepts">> ELSE << >>)
            \o (IF DOMAIN concern_embeddings = {} THEN << >> ELSE <<"products">>)
        failed(error, accessed) ==
            [raised |-> TRUE, error |-> error, products |-> << >>,
             filtered_analysis |-> << >>,
             concern_scores |-> EmptyTable, weight_steps |-> << >>,
             concern_embeddings |-> [c \in {} |-> "NULL"], accesses |-> accessed]
    IN IF ~np_isclose(a.alpha * TenthOfBeta + beta, BetaUnit)
       THEN {failed("ValueError", _warn_if_missing_embedding)}
       ELSE { IF raw.raised THEN failed("DatabaseError", accesses)
              ELSE [raised |-> FALSE, error |-> "none", accesses |-> accesses,
                    products |-> IF a.product_type = NoValue THEN trimmed(raw.rows)
                                 ELSE FilterByProductType(trimmed(raw.rows), a.product_type[1]),
                    filtered_analysis |-> analysis_rows,
                    concern_scores |-> concern_scores,
                    weight_steps |-> analysis_steps \o merge_steps,
                    concern_embeddings |-> concern_embeddings] :
                raw \in _fetch_candidate_products(concern_embeddings, concern_scores,
                            allergen_params, a.max_price, a.include_out_of_stock,
                            a.top_n * 3, products, a.candidate_query_ok) }

\* ProfileProductRecommendation.recommend_products: the responses it
\* may give. a.user_embedding is users.embedding, "NULL" when the user has none
recommend_products(a, lookup, products) ==
    IF a.user_embedding = "NULL"
    THEN {[raised |-> FALSE, error |-> "none", products |-> << >>]}
    ELSE {[raised |-> FALSE, error |-> "none", products |-> ps] :
            ps \in _calculate_product_similarities(a.user_embedding,
                      _get_allergen_filter(lookup), a.top_n, a.max_price,
                      a.include_out_of_stock, products, a.candidate_query_ok)}

(***************************************************************************)
(* The embedding-scored pipeline as a state machine: the store and the     *)
(* user's stored preferences are fixed by Init, every request is one       *)
(* action, and Reset ends the request (nothing of it is kept).             *)
(***************************************************************************)
\* the products of product_cache.json, which the rule-scored paths read
RuleProducts ==
    << [id |-> 1, name |-> <<"G","e","n","t","l","e"," ","A","c","n","e"," ","G","e","l">>, contents |-> <<"A","q","u","a",","," ","M","e","t","h","y","l","p","a","r","a","b","e","n">>,
        activeContent |-> << >>, concerns |-> <<1, 7>>, skinTypes |-> <<4>>,
        description |-> <<"f","o","r"," ","y","o","u","n","g"," ","s","k","i","n">>, keyBenefits |-> <<"o","i","l"," ","c","o","n","t","r","o","l">>],
       [id |-> 2, name |-> <<"D","a","i","l","y"," ","C","r","e","a","m">>, contents |-> <<"a","q","u","a",","," ","g","l","y","c","e","r","i","n">>,
        activeContent |-> << >>, concerns |-> <<1, 8>>, skinTypes |-> <<2, 3>>,
        description |-> << >>, keyBenefits |-> <<"h","y","d","r","a","t","i","n","g">>],
       [id |-> 3, name |-> <<"L","e","m","o","n"," ","E","y","e"," ","B","a","l","m">>, contents |-> <<"a","q","u","a">>,
        activeContent |-> <<"C","i","t","r","u","s"," ","L","i","m","o","n"," ","p","e","e","l">>, concerns |-> <<5, 8>>, skinTypes |-> <<1>>,
        description |-> << >>, keyBenefits |-> << >>],
       [id |-> 4, name |-> <<"F","i","r","m","i","n","g"," ","S","e","r","u","m">>, contents |-> <<"a","q","u","a",","," ","M","E","T","H","Y","L"," ","P","A","R","A","B","E","N">>,
        activeContent |-> << >>, concerns |-> <<1, 5>>, skinTypes |-> <<3>>,
        description |-> <<"a","n","t","i","-","a","g","i","n","g">>, keyBenefits |-> << >>],
       [id |-> 5, name |-> <<"P","l","a","i","n"," ","G","e","l">>, contents |-> <<"a","q","u","a">>,
        activeContent |-> <<"g","l","y","c","e","r","i","n">>, concerns |-> <<7, 3>>, skinTypes |-> <<4>>,
        description |-> << >>, keyBenefits |-> << >>] >>

\* the process after start-up: the lifespan handler has loaded the products,
\* allergen_detector.py has built default_detector, and the analysis module's
\* cache is the empty dict of __init__
EmptyCache == [c \in {} |-> "NULL"]

Constructed ==
    /\ app_state = [products_data |-> RuleProducts]
    /\ default_detector = [known_patterns |-> known_patterns]
    /\ concern_embeddings_cache = EmptyCache

\* the largest number of products a request asks for
MaxTopN == 2

\* the preference records of the embedding pipeline's users
StoredPrefs ==
    { [allergenicIngredients |-> << >>, skinConcerns |-> << >>, skinType |-> 0],
      [allergenicIngredients |-> <<107>>, skinConcerns |-> <<8>>, skinType |-> 2],
      [allergenicIngredients |-> <<0>>, skinConcerns |-> <<1, 6>>, skinType |-> 0],
      [allergenicIngredients |-> <<101, UnknownAllergenId>>, skinConcerns |-> << >>,
       skinType |-> 4] }

\* what the analysis API holds for a user: nothing, one detection on the 0-100
\* scale, two detections on both scales, or a detection whose analysisType is
\* missing (item.get('analysisType', '') reads it as the empty string)
StoredAnalyses ==
    { << >>,
      <<[analysisType |-> <<"a","c","n","e">>, confidence |-> 80 * Unit]>>,
      <<[analysisType |-> <<"D","r","y","n","e","s","s">>, confidence |-> 900],
        [analysisType |-> <<"a","c","n","e">>, confidence |-> 30 * Unit]>>,
      <<[analysisType |-> << >>, confidence |-> 900]>> }

\* the default confidence threshold, 0.5
DefaultThreshold == 500

TopNs == 1..MaxTopN
MaxPrices == {NoValue, Some(0), Some(10)}

\* which collaborator fails during the request, if any
Faults == {"none", "preferences", "concepts", "candidates"}

\* alpha, in tenths, with the beta passed beside it, in millionths: none, 0.2,
\* 0.5, and 0.2 plus 0.000005 or 0.00002
Blends == {[alpha |-> 0, beta |-> NoValue], [alpha |-> 8, beta |-> NoValue],
           [alpha |-> 10, beta |-> NoValue], [alpha |-> 8, beta |-> Some(200000)],
           [alpha |-> 8, beta |-> Some(500000)], [alpha |-> 8, beta |-> Some(200005)],
           [alpha |-> 8, beta |-> Some(200020)]}

ProductTypes == {NoValue, Some(<<"s","e","r","u","m">>)}
PrefVectors == {"None", "profile"}

BaseRequests(op) ==
    [op : {op}, raw_analysis : StoredAnalyses, confidence_threshold : {DefaultThreshold},
     top_n : TopNs, max_price : MaxPrices, include_out_of_stock : BOOLEAN,
     fault : Faults]

WithFaults(r) ==
    [concept_query_ok |-> r.fault # "concepts",
     candidate_query_ok |-> r.fault # "candidates"] @@ r

Lookup(r) == get_user_analysis(user_prefs, r.fault # "preferences")

AnalyzeAndRecommend ==
    /\ pc = "idle"
    /\ \E r \in BaseRequests("analyze_and_recommend") :
         /\ request' = r
         /\ response' \in analyze_and_recommend(WithFaults(r), Lookup(r),
                                                concepts_table, products_table)
    /\ concern_embeddings_cache' =
           CacheAfterResolution(concern_embeddings_cache, response'.concern_embeddings)
    /\ pc' = "done"
    /\ UNCHANGED <<products_table, concepts_table, user_prefs, users_table, app_state,
                   default_detector, calls>>

RunRecommender ==
    /\ pc = "idle"
    /\ \E r \in BaseRequests("run_recommender"), b \in Blends,
          t \in ProductTypes, v \in PrefVectors :
         LET a == [alpha |-> b.alpha, beta |-> b.beta, product_type |-> t,
                   pref_vec |-> v] @@ r
         IN /\ request' = a
            /\ response' \in run_recommender(WithFaults(a), Lookup(a),
                                             concepts_table, products_table)
    /\ pc' = "done"
    /\ UNCHANGED <<products_table, concepts_table, user_prefs, users_table, process>>

RecommendProducts ==
    /\ pc = "idle"
    /\ \E r \in BaseRequests("recommend_products"),
          e \in {"profile", "NULL"} :
         LET a == [user_embedding |-> e] @@ r
         IN /\ request' = a
            /\ response' \in recommend_products(WithFaults(a), Lookup(a),
                                                        products_table)
    /\ pc' = "done"
    /\ UNCHANGED <<products_table, concepts_table, user_prefs, users_table, process>>

\* the response is handed over and the request's structures are dropped
Reset ==
    /\ pc = "done"
    /\ pc' = "idle"
    /\ request' = [op |-> "none"]
    /\ response' = [raised |-> FALSE, error |-> "none"]
    /\ UNCHANGED <<products_table, concepts_table, user_prefs, users_table, process>>

InitRec ==
    /\ pc = "idle"
    /\ products_table = ProductPool
    /\ concepts_table = ConceptPool
    /\ user_prefs \in StoredPrefs
    /\ users_table = StoredUser
    /\ Constructed
    /\ calls = NoCalls
    /\ request = [op |-> "none"]
    /\ response = [raised |-> FALSE, error |-> "none"]

NextRec == AnalyzeAndRecommend \/ RunRecommender \/ RecommendProducts \/ Reset

SpecRec == InitRec /\ [][NextRec]_vars


(***************************************************************************)
(* Properties of the embedding-scored pipeline (SpecRec)                   *)
(***************************************************************************)
\* the request at hand has been answered by one of the given entry points
Answered(ops) == pc = "done" /\ request.op \in ops

\* the products row behind a returned product
ReturnedRow(i) == ProductById(products_table, response.products[i].id)

\* the names of the allergens the user has declared in the stored preferences
DeclaredAllergens == KnownAllergenNames(user_prefs.allergenicIngredients)

\* some search term of a declared allergen occurs in the text, whatever the case
ContainsDeclaredAllergen(text) ==
    /\ text # None
    /\ \E t \in all_search_terms(DeclaredAllergens) : IsSubstring(Lower(t), Lower(text))

\* C1: allergen safety of the embedding-scored pipeline. No product returned by
\* analyze_and_recommend or run_recommender for a user who declared an allergen
\* has a search term of that allergen in its ingredients_text, in any letter case.
C1_AllergenSafety ==
    Answered({"analyze_and_recommend", "run_recommender"}) =>
        \A i \in DOMAIN response.products :
            ~ContainsDeclaredAllergen(ReturnedRow(i).ingredients_text)

\* C5: store-failure degradation. Whenever the candidate query fails, both entry
\* points answer with no products and the store's exception does not reach the
\* caller.
C5_StoreFailureDegrades ==
    (Answered({"analyze_and_recommend", "run_recommender"}) /\ request.fault = "candidates")
        => /\ response.error # "DatabaseError"
           /\ response.error = "none" => response.products = << >>

\* the allergen parameters the request at hand was served with
ServedAllergenParams == _get_allergen_filter(Lookup(request))

\* beta as run_recommender settles it
ServedBeta ==
    IF request.beta = NoValue THEN BetaUnit - request.alpha * TenthOfBeta ELSE request.beta[1]

\* the rows of the products table that pass every filter of the request,
\* the product_type filter included
PassingRows ==
    {r \in products_table :
        /\ WherePriceGiven(r, ServedAllergenParams, request.max_price,
                           request.include_out_of_stock)
        /\ request.product_type # NoValue =>
              IsSubstring(Lower(request.product_type[1]), Lower(r.name))}

\* the blended final_score of a products row under the request at hand
FinalScoreOf(r) ==
    LET weight == [c \in DOMAIN response.concern_embeddings |->
                      TableGet(response.concern_scores, Lower(c), Unit)]
        row == [id |-> r.id, name |-> r.name, embedding_str |-> r.embedding,
                concern_score |->
                    ScoringFormula(r.embedding, response.concern_embeddings, weight)]
    IN BlendedProduct(row, request.pref_vec, request.alpha, ServedBeta).final_score

\* C6: truncation happens after blending. The list run_recommender returns is
\* sorted by final_score descending and holds the top_n products of highest
\* final_score among all products that pass the filters.
C6_TruncationAfterBlending ==
    (/\ Answered({"run_recommender"})
     /\ request.fault = "none"
     /\ ~response.raised
     /\ DOMAIN response.concern_embeddings # {})
        => LET returned == {response.products[i].id : i \in DOMAIN response.products} IN
           /\ \A i, j \in DOMAIN response.products :
                 i < j => response.products[i].final_score >= response.products[j].final_score
           /\ Len(response.products) = Min(request.top_n, Cardinality(PassingRows))
           /\ \A q \in PassingRows :
                 q.id \notin returned =>
                    \A i \in DOMAIN response.products :
                        FinalScoreOf(q) <= response.products[i].final_score

\* C7: the candidate filters are conjunctive. Every product the candidate scorer
\* returns has an embedding, passes the allergen predicate the request was
\* served with, costs at most max_price whenever a max_price was supplied, and
\* is in stock unless out-of-stock products were asked for.
C7_ConjunctiveFilters ==
    Answered({"analyze_and_recommend", "run_recommender", "recommend_products"}) =>
        \A i \in DOMAIN response.products :
            LET r == ReturnedRow(i) IN
            /\ r.embedding # "NULL"
            /\ AllergenClause(r, ServedAllergenParams)
            /\ request.max_price # NoValue => r.price <= request.max_price[1]
            /\ ~request.include_out_of_stock => r.stock_status = 0

(***************************************************************************)
(* The concept resolver on its own (SpecConcept): the concepts table holds *)
(* any rows of ConceptPool, and _get_concern_embeddings is called with a   *)
(* few concern names                                                       *)
(***************************************************************************)
\* the most concern names one call resolves
MaxConcerns == 2

\* concern names as the aggregator hands them over (lowercased analysis types
\* and preference names)
ConcernNamePool ==
    {<<"a","c","n","e">>, <<"a","c","n","e"," ","s","c","a","r","s">>, <<"b","l","e","m","i","s","h","e","s">>, <<"p","u","f","f","i","n","e","s","s">>, <<"d","r","y","-","n","e","s","s">>, <<"o","i","l","y">>}

GetConcernEmbeddings ==
    /\ pc = "idle"
    /\ \E names \in SUBSET ConcernNamePool, ok \in BOOLEAN :
         /\ names # {}
         /\ Cardinality(names) <= MaxConcerns
         /\ request' = [op |-> "_get_concern_embeddings", concern_names |-> names,
                        concept_query_ok |-> ok]
         /\ response' = [raised |-> FALSE, error |-> "none",
                         concern_embeddings |->
                             _get_concern_embeddings(names, concepts_table, ok)]
    /\ pc' = "done"
    /\ UNCHANGED <<products_table, concepts_table, user_prefs, users_table, process>>

InitConcept ==
    /\ pc = "idle"
    /\ products_table = ProductPool
    /\ concepts_table \in SUBSET ConceptPool
    /\ user_prefs = EmptyPrefs
    /\ users_table = StoredUser
    /\ Constructed
    /\ calls = NoCalls
    /\ request = [op |-> "none"]
    /\ response = [raised |-> FALSE, error |-> "none"]

NextConcept == GetConcernEmbeddings \/ Reset

SpecConcept == InitConcept /\ [][NextConcept]_vars

\* C4: concept resolution precedence. When a concept with an embedding has the
\* same normalized name as the concern, the concern is given that concept's
\* embedding, even if another concept matches it by containment or through the
\* special-case mappings.
C4_ExactMatchWins ==
    (Answered({"_get_concern_embeddings"}) /\ request.concept_query_ok) =>
        \A c \in request.concern_names, r \in concepts_table :
            (r.embedding # "NULL" /\ NormalizeName(r.name) = NormalizeName(c)) =>
                /\ c \in DOMAIN response.concern_embeddings
                /\ response.concern_embeddings[c] = r.embedding

(***************************************************************************)
(* The concern-weight aggregator on its own (SpecAgg): the normalization   *)
(* rule, _get_filtered_analysis, and the collection of concerns at the     *)
(* head of run_recommender (analysis_preference.py:252-258)                *)
(***************************************************************************)
\* the most detections the analysis API answers with
MaxDetections == 2

\* 100.0 in thousandths: the top of the 0-100 scale
HundredScaleTop == 100 * Unit

\* confidences on the 0-1 scale (0, 0.3, 0.499, 0.5, 1.0), on the 0-100 scale
\* (1.1, 49.9, 50, 100) and beyond both (150)
ConfidenceGrid == {0, 300, 499, 500, Unit, 1100, 49900, 50 * Unit, HundredScaleTop, 150 * Unit}

\* caller-supplied thresholds: 0.0, 0.5 and 1.0
Thresholds == {0, DefaultThreshold, Unit}

\* the lists of at most n elements of S
RECURSIVE SeqsUpTo(_, _)
SeqsUpTo(S, n) ==
    IF n = 0 THEN {<< >>}
    ELSE LET shorter == SeqsUpTo(S, n - 1) IN
         shorter \cup {Append(s, x) : s \in {t \in shorter : Len(t) = n - 1}, x \in S}

\* the normalization rule applied to a value, and to its own result
ApplyNormalization ==
    /\ pc = "idle"
    /\ \E c \in ConfidenceGrid :
         /\ request' = [op |-> "normalize", confidence |-> c]
         /\ response' = [raised |-> FALSE, error |-> "none",
                         once |-> NormalizeConfidence(c),
                         twice |-> NormalizeConfidence(NormalizeConfidence(c))]
    /\ pc' = "done"
    /\ UNCHANGED <<products_table, concepts_table, user_prefs, users_table, process>>

GetFilteredAnalysis ==
    /\ pc = "idle"
    /\ \E raw \in SeqsUpTo([analysisType : {<<"a","c","n","e">>}, confidence : ConfidenceGrid],
                           MaxDetections),
          t \in Thresholds :
         /\ request' = [op |-> "_get_filtered_analysis", raw_analysis |-> raw,
                        confidence_threshold |-> t]
         /\ response' = [raised |-> FALSE, error |-> "none",
                         filtered_analysis |-> _get_filtered_analysis(raw, t)]
    /\ pc' = "done"
    /\ UNCHANGED <<products_table, concepts_table, user_prefs, users_table, process>>

\* the detections whose weights are collected: both letter cases of one type,
\* another type, on both scales
CollectedDetections ==
    [analysisType : {<<"a","c","n","e">>, <<"A","c","n","e">>, <<"D","r","y","n","e","s","s">>}, confidence : {300, 900, 80 * Unit}]

\* analysis_preference.py:252-258: filter, map, and merge the preference concerns
CollectConcerns ==
    /\ pc = "idle"
    /\ \E raw \in SeqsUpTo(CollectedDetections, MaxDetections),
          t \in {0, DefaultThreshold}, ok \in BOOLEAN :
         LET analysis_rows == _get_filtered_analysis(raw, t)
             analysis_scores == _map_analysis_to_concerns(analysis_rows)
             prefs == PrefsOrEmpty(get_user_analysis(user_prefs, ok))
             pref_concerns == _map_pref_concerns(prefs)
         IN /\ request' = [op |-> "collect_concerns", raw_analysis |-> raw,
                           confidence_threshold |-> t, preferences_ok |-> ok]
            /\ response' =
                 [raised |-> FALSE, error |-> "none",
                  filtered_analysis |-> analysis_rows,
                  pref_contributions |-> PrefContributions(prefs),
                  pref_steps |-> AccumulateSteps(EmptyTable, PrefContributions(prefs)),
                  weight_steps |->
                      AccumulateSteps(EmptyTable, AnalysisContributions(analysis_rows))
                      \o AccumulateSteps(analysis_scores, MergeContributions(pref_concerns)),
                  concern_scores |-> MergeConcerns(analysis_scores, pref_concerns)]
    /\ pc' = "done"
    /\ UNCHANGED <<products_table, concepts_table, user_prefs, users_table, process>>

\* preference records with repeated, unknown (99) and merging concern ids
AggPrefs ==
    [allergenicIngredients : {<< >>},
     skinConcerns : {<< >>, <<8>>, <<1, 8>>, <<8, 8>>, <<99, 1>>},
     skinType : {0, 2}]

InitAgg ==
    /\ pc = "idle"
    /\ products_table = ProductPool
    /\ concepts_table = ConceptPool
    /\ user_prefs \in AggPrefs
    /\ users_table = StoredUser
    /\ Constructed
    /\ calls = NoCalls
    /\ request = [op |-> "none"]
    /\ response = [raised |-> FALSE, error |-> "none"]

NextAgg == ApplyNormalization \/ GetFilteredAnalysis \/ CollectConcerns \/ Reset

SpecAgg == InitAgg /\ [][NextAgg]_vars

(***************************************************************************)
(* Properties of the aggregator (SpecAgg)                                  *)
(***************************************************************************)
\* every confidence of the request lies on the 0-1 or the 0-100 scale
OnDocumentedScales ==
    \A i \in DOMAIN request.raw_analysis :
        /\ 0 <= request.raw_analysis[i].confidence
        /\ request.raw_analysis[i].confidence <= HundredScaleTop

\* the detections of the request whose normalized confidence reaches the threshold
KeptIndices ==
    {i \in DOMAIN request.raw_analysis :
        NormalizeConfidence(request.raw_analysis[i].confidence)
            >= request.confidence_threshold}

\* C8: confidence normalization range and threshold. For confidences on the 0-1
\* or the 0-100 scale, every normalized confidence _get_filtered_analysis stores
\* lies in [0,1], and a detection is kept exactly when its normalized confidence
\* is at least the threshold.
C8_NormalizedRangeAndThreshold ==
    (Answered({"_get_filtered_analysis", "collect_concerns"}) /\ OnDocumentedScales) =>
        /\ \A j \in DOMAIN response.filtered_analysis :
              /\ 0 <= response.filtered_analysis[j].normalized_confidence
              /\ response.filtered_analysis[j].normalized_confidence <= Unit
              /\ \E i \in KeptIndices :
                    /\ request.raw_analysis[i].analysisType
                          = response.filtered_analysis[j].analysisType
                    /\ request.raw_analysis[i].confidence
                          = response.filtered_analysis[j].confidence
                    /\ NormalizeConfidence(request.raw_analysis[i].confidence)
                          = response.filtered_analysis[j].normalized_confidence
        /\ Len(response.filtered_analysis) = Cardinality(KeptIndices)

\* C8 witness: 50 on the 0-100 scale meets the threshold 0.5 and is kept as 0.5,
\* 0.499 on the 0-1 scale is dropped
C8_Witness ==
    /\ Answered({"_get_filtered_analysis"})
    /\ request.confidence_threshold = DefaultThreshold
    /\ request.raw_analysis = <<[analysisType |-> <<"a","c","n","e">>, confidence |-> 50 * Unit],
                                [analysisType |-> <<"a","c","n","e">>, confidence |-> 499]>>
    /\ Len(response.filtered_analysis) = 1
    /\ response.filtered_analysis[1].normalized_confidence = DefaultThreshold

\* C9 as stated: for any confidence value, normalizing twice gives what
\* normalizing once gives.
C9_IdempotentForAnyValue ==
    Answered({"normalize"}) => response.twice = response.once

\* C9 amended: for any confidence value on the 0-1 or the 0-100 scale (at most
\* 100), normalizing twice gives what normalizing once gives.
C9_IdempotentOnScales ==
    (Answered({"normalize"}) /\ request.confidence <= HundredScaleTop) =>
        response.twice = response.once

\* C9 witness: 50 on the 0-100 scale is normalized to 0.5, and stays 0.5
C9_Witness ==
    /\ Answered({"normalize"})
    /\ request.confidence = 50 * Unit
    /\ response.once = 500
    /\ response.twice = 500

\* no two keys of the table differ only by letter case
CaseInsensitivelyUnique(table) ==
    \A k1, k2 \in DOMAIN table : Lower(k1) = Lower(k2) => k1 = k2

\* every step keeps each existing key and does not lower its weight
NeverDecreasing(steps) ==
    \A i \in 1..(Len(steps) - 1) :
        \A k \in DOMAIN steps[i] :
            k \in DOMAIN steps[i + 1] /\ steps[i + 1][k] >= steps[i][k]

\* C10: weight table invariant. Through the analysis detections, the preference
\* concerns and skin type, and the merge loop, no two keys of the weight table
\* differ only by letter case, no step lowers the weight of an existing key, and
\* the merged weight of a concern is at least each contribution to it.
C10_WeightTable ==
    Answered({"collect_concerns"}) =>
        /\ \A i \in DOMAIN response.weight_steps :
              CaseInsensitivelyUnique(response.weight_steps[i])
        /\ \A i \in DOMAIN response.pref_steps :
              CaseInsensitivelyUnique(response.pref_steps[i])
        /\ CaseInsensitivelyUnique(response.concern_scores)
        /\ NeverDecreasing(response.weight_steps)
        /\ NeverDecreasing(response.pref_steps)
        /\ \A j \in DOMAIN response.filtered_analysis :
              LET item == response.filtered_analysis[j] IN
              \E k \in DOMAIN response.concern_scores :
                  /\ Lower(k) = Lower(item.analysisType)
                  /\ response.concern_scores[k] >= item.normalized_confidence
        /\ \A j \in DOMAIN response.pref_contributions :
              LET c == response.pref_contributions[j] IN
              /\ c.key \in DOMAIN response.concern_scores
              /\ response.concern_scores[c.key] >= c.weight

\* C10 witness: "Dryness" detected at 0.9 and the preference concern Dryness
\* given twice merge into one key of weight 2.9
C10_Witness ==
    /\ Answered({"collect_concerns"})
    /\ <<"d","r","y","n","e","s","s">> \in DOMAIN response.concern_scores
    /\ response.concern_scores[<<"d","r","y","n","e","s","s">>] = 2900
    /\ Len(response.weight_steps) >= 2

(***************************************************************************)
(* The rule-scored skin-analysis path: find_matching_ids,                  *)
(* filter_products_by_skin_analysis_api and the preference score           *)
(* (recommendation_system/analysis_filter.py)                              *)
(***************************************************************************)
\* SPECIAL_MAPPINGS, entries 'acne' and 'eyebag'
SPECIAL_MAPPINGS ==
    (<<"a","c","n","e">> :> [concerns |-> <<<<"a","c","n","e","b","l","e","m","i","s","h","e","s">>, <<"o","i","l","i","n","e","s","s">>>>])
    @@ (<<"e","y","e","b","a","g">> :> [concerns |-> <<<<"d","a","r","k","c","i","r","c","l","e","s">>, <<"p","u","f","f","i","n","e","s","s">>>>])

\* get_name_mappings: lowercased name -> id
concern_name_to_id ==
    [n \in {Lower(BeautyPreferencesSkinConcern[k]) : k \in DOMAIN BeautyPreferencesSkinConcern}
        |-> CHOOSE k \in DOMAIN BeautyPreferencesSkinConcern :
                Lower(BeautyPreferencesSkinConcern[k]) = n]

skin_type_name_to_id ==
    [n \in {Lower(BeautyPreferencesSkinType[k]) : k \in DOMAIN BeautyPreferencesSkinType}
        |-> CHOOSE k \in DOMAIN BeautyPreferencesSkinType :
                Lower(BeautyPreferencesSkinType[k]) = n]

\* [table[name] for name in names if name in table]
RECURSIVE IdsOfNames(_, _)
IdsOfNames(names, table) ==
    IF names = << >> THEN << >>
    ELSE (IF Head(names) \in DOMAIN table THEN <<table[Head(names)]>> ELSE << >>)
         \o IdsOfNames(Tail(names), table)

\* find_matching_ids: the special mappings first, else the direct names
find_matching_ids(analysis_type) ==
    LET analysis_lower == Lower(analysis_type) IN
    IF analysis_lower \in DOMAIN SPECIAL_MAPPINGS
    THEN [concern_ids |-> IdsOfNames(SPECIAL_MAPPINGS[analysis_lower].concerns,
                                     concern_name_to_id),
          skin_type_ids |-> << >>]
    ELSE [concern_ids |-> IdsOfNames(<<analysis_lower>>, concern_name_to_id),
          skin_type_ids |-> IdsOfNames(<<analysis_lower>>, skin_type_name_to_id)]

\* f"{a} {b}"
SpaceJoin(a, b) == a \o <<" ">> \o b

\* sum(1 for keyword in keywords if keyword in text)
KeywordMatches(keywords, text) ==
    Cardinality({i \in DOMAIN keywords : IsSubstring(keywords[i], text)})

\* _is_product_safe_for_user: raised when the detector raises
_is_product_safe_for_user(product, user_preferences) ==
    LET user_allergens == user_preferences.allergenicIngredients
        allergen_names ==
            [i \in 1..Len(SelectSeq(user_allergens, LAMBDA a : a # 0)) |->
                LET a == SelectSeq(user_allergens, LAMBDA b : b # 0)[i] IN
                IF a \in DOMAIN AllergenicIngredients THEN AllergenicIngredients[a]
                ELSE None]
    IN IF user_allergens = << >> \/ user_allergens = <<0>>
       THEN [raised |-> FALSE, safe |-> TRUE]
       ELSE IF allergen_names = << >> THEN [raised |-> FALSE, safe |-> TRUE]
       ELSE is_safe_for_user(SpaceJoin(product.contents, product.activeContent),
                             allergen_names)

\* 1.0 as a tier score, in 120ths, and as a preference score, in 1200ths
TierUnit == 120
RuleScoreUnit == 10 * TierUnit

\* age_keywords of _score_high_preferences, entry 1 (SixteenPlus)
filter_age_keywords == (1 :> <<<<"t","e","e","n">>, <<"y","o","u","n","g">>, <<"g","e","n","t","l","e">>, <<"a","c","n","e">>>>)

\* the text the keyword heuristics read: name, description and keyBenefits
ProductText(product) ==
    Lower(SpaceJoin(SpaceJoin(product.name, product.description), product.keyBenefits))

\* CRITICAL-tier scoring that counts both dimensions whatever their value: a
\* sentinel is a zero-scoring item
ScoreCriticalCountingSentinels(product, user_preferences) ==
    LET user_concerns_set == Range(user_preferences.skinConcerns) \ {0}
        overlap == user_concerns_set \cap Range(product.concerns)
        skin_type_score ==
            IF user_preferences.skinType # 0
               /\ (user_preferences.skinType \in Range(product.skinTypes)
                   \/ 1 \in Range(product.skinTypes))
            THEN TierUnit ELSE 0
        concern_score ==
            IF overlap # {}
            THEN (TierUnit * Cardinality(overlap)) \div Cardinality(user_concerns_set)
            ELSE 0
    IN (skin_type_score + concern_score) \div 2

\* _score_critical_preferences: skin type and skin concerns
_score_critical_preferences(product, user_preferences) ==
    LET user_skin_type == user_preferences.skinType
        user_concerns == user_preferences.skinConcerns
        concerns_scored == user_concerns # << >> /\ user_concerns # <<0>>
        user_concerns_set == Range(user_concerns) \ {0}
        overlap == user_concerns_set \cap Range(product.concerns)
        skin_type_score ==
            IF user_skin_type # 0
               /\ (user_skin_type \in Range(product.skinTypes) \/ 1 \in Range(product.skinTypes))
            THEN TierUnit ELSE 0
        concern_score ==
            IF concerns_scored /\ overlap # {}
            THEN (TierUnit * Cardinality(overlap)) \div Cardinality(user_concerns_set)
            ELSE 0
        scored_items == (IF user_skin_type # 0 THEN 1 ELSE 0)
                        + (IF concerns_scored THEN 1 ELSE 0)
    IN IF scored_items > 0 THEN (skin_type_score + concern_score) \div scored_items ELSE 0

\* the HIGH tier as the sum of its two scores, not their mean
ScoreHighWithoutMean(product, user_preferences) ==
    LET user_age_range == user_preferences.ageRange
        keywords == IF user_age_range \in DOMAIN filter_age_keywords
                    THEN filter_age_keywords[user_age_range] ELSE << >>
        age_score ==
            IF user_age_range # 0 /\ keywords # << >>
            THEN Min((TierUnit * KeywordMatches(keywords, ProductText(product)))
                        \div Len(keywords), TierUnit)
            ELSE 0
        tone_score == IF user_preferences.skinTone # 0 THEN TierUnit \div 2 ELSE 0
    IN age_score + tone_score
\* _score_high_preferences: age range keywords and the neutral 0.5 of a skin tone
_score_high_preferences(product, user_preferences) ==
    LET user_age_range == user_preferences.ageRange
        keywords == IF user_age_range \in DOMAIN filter_age_keywords
                    THEN filter_age_keywords[user_age_range] ELSE << >>
        age_score ==
            IF user_age_range # 0 /\ keywords # << >>
            THEN Min((TierUnit * KeywordMatches(keywords, ProductText(product)))
                        \div Len(keywords), TierUnit)
            ELSE 0
        tone_score == IF user_preferences.skinTone # 0 THEN TierUnit \div 2 ELSE 0
        scored_items == (IF user_age_range # 0 THEN 1 ELSE 0)
                        + (IF user_preferences.skinTone # 0 THEN 1 ELSE 0)
    IN IF scored_items > 0 THEN (age_score + tone_score) \div scored_items ELSE 0

\* "if user_pref and user_pref != [0]"
ListPreferenceSet(user_pref) == user_pref # << >> /\ user_pref # <<0>>

\* _score_medium_preferences: 0.3 for each list that is set
_score_medium_preferences(product, user_preferences) ==
    LET scored_items ==
            (IF ListPreferenceSet(user_preferences.fragrancePreferences) THEN 1 ELSE 0)
            + (IF ListPreferenceSet(user_preferences.hairType) THEN 1 ELSE 0)
            + (IF ListPreferenceSet(user_preferences.shoppingPreferences) THEN 1 ELSE 0)
    IN IF scored_items > 0
       THEN (scored_items * ((3 * TierUnit) \div 10)) \div scored_items ELSE 0

\* _score_low_preferences: 0.2 for each of eyeColor, hairColor, favoriteBrands that is set
_score_low_preferences(product, user_preferences) ==
    LET scored_items ==
            (IF user_preferences.eyeColor # 0 THEN 1 ELSE 0)
            + (IF user_preferences.hairColor # 0 THEN 1 ELSE 0)
            + (IF user_preferences.favoriteBrands # << >> THEN 1 ELSE 0)
    IN IF scored_items > 0 THEN (scored_items * ((2 * TierUnit) \div 10)) \div scored_items ELSE 0

\* _calculate_preference_score: the tiers weighted 0.4, 0.3, 0.2, 0.1, capped at 1.0
_calculate_preference_score(product, user_preferences) ==
    Min(4 * _score_critical_preferences(product, user_preferences)
        + 3 * _score_high_preferences(product, user_preferences)
        + 2 * _score_medium_preferences(product, user_preferences)
        + 1 * _score_low_preferences(product, user_preferences),
        RuleScoreUnit)

\* the inner loop without the test "product_id in all_recommended_products"
ScanProductAgain(product, ids, user_preferences, acc) ==
    LET concern_match == \E i \in DOMAIN ids.concern_ids :
                             ids.concern_ids[i] \in Range(product.concerns)
        skin_type_match == \E i \in DOMAIN ids.skin_type_ids :
                               ids.skin_type_ids[i] \in Range(product.skinTypes)
        product_info ==
            [id |-> product.id,
             score |-> IF user_preferences # NoValue
                       THEN _calculate_preference_score(product, user_preferences[1])
                       ELSE 0,
             name |-> product.name,
             concern_match |-> concern_match,
             skin_type_match |-> skin_type_match]
    IN IF acc.raised \/ product.id = 0 \/ ~(concern_match \/ skin_type_match)
       THEN acc
       ELSE [acc EXCEPT !.all_recommended_products = @ \cup {product.id},
                        !.condition_products = Append(@, product_info),
                        !.all_scored_products = Append(@, product_info)]

\* one product of the inner loop of filter_products_by_skin_analysis_api
\* (analysis_filter.py:131-166). acc holds raised, all_recommended_products,
\* condition_products and all_scored_products
ScanProduct(product, ids, user_preferences, acc) ==
    LET concern_match == \E i \in DOMAIN ids.concern_ids :
                             ids.concern_ids[i] \in Range(product.concerns)
        skin_type_match == \E i \in DOMAIN ids.skin_type_ids :
                               ids.skin_type_ids[i] \in Range(product.skinTypes)
        checked == IF user_preferences # NoValue
                   THEN _is_product_safe_for_user(product, user_preferences[1])
                   ELSE [raised |-> FALSE, safe |-> TRUE]
        product_info ==
            [id |-> product.id,
             score |-> IF user_preferences # NoValue
                       THEN _calculate_preference_score(product, user_preferences[1])
                       ELSE 0,
             name |-> product.name,
             concern_match |-> concern_match,
             skin_type_match |-> skin_type_match]
    IN IF acc.raised \/ product.id = 0 \/ product.id \in acc.all_recommended_products
          \/ ~(concern_match \/ skin_type_match)
       THEN acc
       ELSE IF checked.raised THEN [acc EXCEPT !.raised = TRUE]
       ELSE IF ~checked.safe THEN acc
       ELSE [acc EXCEPT !.all_recommended_products = @ \cup {product.id},
                        !.condition_products = Append(@, product_info),
                        !.all_scored_products = Append(@, product_info)]

RECURSIVE ScanProducts(_, _, _, _)
ScanProducts(products, ids, user_preferences, acc) ==
    IF products = << >> THEN acc
    ELSE Once(ScanProduct(Head(products), ids, user_preferences, acc),
              LAMBDA next : ScanProducts(Tail(products), ids, user_preferences, next))

\* the scores of a list of product infos
ScoresOf(infos) == [i \in 1..Len(infos) |-> infos[i].score]

\* d[key] = value
DictSet(d, key, value) == [k \in DOMAIN d \cup {key} |-> IF k = key THEN value ELSE d[k]]

\* one qualifying condition (analysis_filter.py:121-176); acc holds raised,
\* all_recommended_products, all_scored_products and results
ScanCondition(condition, products, user_preferences, max_products_per_condition, acc) ==
    LET ids == find_matching_ids(condition)
        start == [raised |-> FALSE,
                  all_recommended_products |-> acc.all_recommended_products,
                  condition_products |-> << >>,
                  all_scored_products |-> acc.all_scored_products]
        sorted(condition_products) ==
            IF user_preferences # NoValue /\ condition_products # << >>
            THEN SortDescStable(condition_products, ScoresOf(condition_products))
            ELSE condition_products
        listed(scanned) ==
            IF scanned.raised THEN [acc EXCEPT !.raised = TRUE]
            ELSE [raised |-> FALSE,
                  all_recommended_products |-> scanned.all_recommended_products,
                  all_scored_products |-> scanned.all_scored_products,
                  results |-> DictSet(acc.results, condition,
                                      Take(Once(scanned.condition_products, sorted),
                                           max_products_per_condition))]
    IN IF acc.raised THEN acc
       ELSE Once(IF ids.concern_ids # << >> \/ ids.skin_type_ids # << >>
                 THEN Once(ids, LAMBDA found :
                               ScanProducts(products, found, user_preferences, start))
                 ELSE start,
                 listed)

RECURSIVE ScanConditions(_, _, _, _, _)
ScanConditions(conditions, products, user_preferences, max_products_per_condition, acc) ==
    IF conditions = << >> THEN acc
    ELSE Once(ScanCondition(Head(conditions), products, user_preferences,
                            max_products_per_condition, acc),
              LAMBDA next : ScanConditions(Tail(conditions), products, user_preferences,
                                           max_products_per_condition, next))

\* the analysis types whose confidence, as received, reaches the threshold
\* (analysis_filter.py:110-114)
RECURSIVE qualifying_conditions(_, _)
qualifying_conditions(data, confidence_threshold) ==
    IF data = << >> THEN << >>
    ELSE (IF Head(data).confidence >= confidence_threshold
          THEN <<Head(data).analysisType>> ELSE << >>)
         \o qualifying_conditions(Tail(data), confidence_threshold)

\* the key of the top_score element
TopScoreKey == <<"t","o","p","_","s","c","o","r","e">>

\* [p["id"] for p in products]
IdsOf(infos) == [i \in 1..Len(infos) |-> infos[i].id]

\* filter_products_by_skin_analysis_api: user_preferences is NoValue for None.
\* The answer is raised, or the results dict as a function of its keys
filter_products_by_skin_analysis_api(skin_analysis_data, products_data, confidence_threshold, max_products_per_condition, user_preferences, return_format) ==
    LET top_scored(all_scored_products) ==
            Take(SortDescStable(all_scored_products, ScoresOf(all_scored_products)), 2)
        with_top_score(scanned) ==
            IF user_preferences # NoValue /\ scanned.all_scored_products # << >>
            THEN DictSet(scanned.results, TopScoreKey,
                         Once(scanned.all_scored_products, top_scored))
            ELSE scanned.results
        formatted(results) ==
            IF return_format = "ids_only"
            THEN [raised |-> FALSE, error |-> "none",
                  results |-> [k \in DOMAIN results \ {TopScoreKey} |-> IdsOf(results[k])]]
            ELSE [raised |-> FALSE, error |-> "none", results |-> results]
        answered(scanned) ==
            IF scanned.raised THEN [raised |-> TRUE, error |-> "AttributeError"]
            ELSE Once(with_top_score(scanned), formatted)
    IN Once(ScanConditions(
                qualifying_conditions(skin_analysis_data, confidence_threshold),
                products_data, user_preferences, max_products_per_condition,
                [raised |-> FALSE, all_recommended_products |-> {},
                 all_scored_products |-> << >>,
                 results |-> [k \in {} |-> << >>]]),
            answered)

(***************************************************************************)
(* The rule-scored preference path: UserPreferenceParser                   *)
(* (preference_rec/user_preference_parser.py) and                          *)
(* PreferenceRecommendationEngine (preference_rec/preference_rec.py)       *)
(***************************************************************************)
\* BEAUTY_TO_PRODUCT_MAPPING, the entries of the concerns the model names
BEAUTY_TO_PRODUCT_MAPPING ==
    (<<"A","c","n","e","B","l","e","m","i","s","h","e","s">> :> [concerns |-> {5, 7}, skinTypes |-> {3, 4}])
    @@ (<<"D","a","r","k","C","i","r","c","l","e","s">> :> [concerns |-> {6}, skinTypes |-> {}])
    @@ (<<"R","e","d","n","e","s","s">> :> [concerns |-> {5}, skinTypes |-> {0}])
    @@ (<<"O","i","l","i","n","e","s","s">> :> [concerns |-> {7}, skinTypes |-> {3}])
    @@ (<<"D","r","y","n","e","s","s">> :> [concerns |-> {3}, skinTypes |-> {4}])

\* AgeRange, id 1; BeautyPreferencesSkinTone, id 7; FragrancePreferences,
\* HairType, ShoppingPreferences and EyeColor, id 1
AgeRange == (1 :> <<"S","i","x","t","e","e","n","P","l","u","s">>)
BeautyPreferencesSkinTone == (7 :> <<"F","a","i","r">>)
FragrancePreferences == (1 :> <<"F","l","o","r","a","l","M","i","s","t">>)
HairType == (1 :> <<"F","i","n","e">>)
ShoppingPreferences == (1 :> <<"B","e","s","t","O","f","A","l","l","u","r","e">>)
EyeColor == (1 :> <<"B","r","o","w","n">>)

\* table.get(id): the name, or None
TableName(table, id) == IF id \in DOMAIN table THEN table[id] ELSE None

\* [table.get(x) for x in ids if x != 0]
RECURSIVE NamesOfIds(_, _)
NamesOfIds(ids, table) ==
    IF ids = << >> THEN << >>
    ELSE (IF Head(ids) # 0 THEN <<TableName(table, Head(ids))>> ELSE << >>)
         \o NamesOfIds(Tail(ids), table)

\* the names a list preference is parsed to; the key is left out of the
\* filters when the list is empty or [0]
ParsedNames(ids, table) ==
    IF ListPreferenceSet(ids) THEN NamesOfIds(ids, table) ELSE << >>

\* the names _map_to_product_criteria is called with that BEAUTY_TO_PRODUCT_MAPPING holds
MappedNames(user_prefs_data) ==
    {n \in Range(ParsedNames(user_prefs_data.skinConcerns, BeautyPreferencesSkinConcern))
           \cup (IF user_prefs_data.skinType # 0
                 THEN {TableName(BeautyPreferencesSkinType, user_prefs_data.skinType)}
                 ELSE {}) :
        n \in DOMAIN BEAUTY_TO_PRODUCT_MAPPING}

\* a single-valued preference: NoValue when the id is 0 or names nothing
SingleName(table, id) ==
    IF id # 0 /\ id \in DOMAIN table THEN Some(table[id]) ELSE NoValue

\* UserPreferenceParser.parse_preferences
parse_preferences(user_prefs_data) ==
    [product_concerns |->
         UNION {BEAUTY_TO_PRODUCT_MAPPING[n].concerns : n \in MappedNames(user_prefs_data)},
     product_skin_types |->
         UNION {BEAUTY_TO_PRODUCT_MAPPING[n].skinTypes : n \in MappedNames(user_prefs_data)},
     excluded_ingredients |->
         ParsedNames(user_prefs_data.allergenicIngredients, AllergenicIngredients),
     skin_tone_preference |-> SingleName(BeautyPreferencesSkinTone, user_prefs_data.skinTone),
     age_range_preference |-> SingleName(AgeRange, user_prefs_data.ageRange),
     fragrancePreferences |->
         ParsedNames(user_prefs_data.fragrancePreferences, FragrancePreferences),
     hairType |-> ParsedNames(user_prefs_data.hairType, HairType),
     shoppingPreferences |->
         ParsedNames(user_prefs_data.shoppingPreferences, ShoppingPreferences),
     eyeColor |-> SingleName(EyeColor, user_prefs_data.eyeColor)]

\* the parsed preferences of an engine built without preferences
default_parsed_prefs ==
    [product_concerns |-> {}, product_skin_types |-> {}, excluded_ingredients |-> << >>,
     skin_tone_preference |-> NoValue, age_range_preference |-> NoValue,
     fragrancePreferences |-> << >>, hairType |-> << >>, shoppingPreferences |-> << >>,
     eyeColor |-> NoValue]

\* PreferenceRecommendationEngine.__init__: user_preferences_data is NoValue for None
EngineParsedPrefs(user_preferences_data) ==
    IF user_preferences_data # NoValue THEN parse_preferences(user_preferences_data[1])
    ELSE default_parsed_prefs

_check_skin_type_compatibility(product, parsed_prefs) ==
    parsed_prefs.product_skin_types # {} =>
        \/ parsed_prefs.product_skin_types \cap Range(product.skinTypes) # {}
        \/ 1 \in Range(product.skinTypes)

\* _check_allergen_safety: raised when the detector raises
_check_allergen_safety(product, parsed_prefs) ==
    IF parsed_prefs.excluded_ingredients = << >> THEN [raised |-> FALSE, safe |-> TRUE]
    ELSE is_safe_for_user(SpaceJoin(Lower(product.contents), Lower(product.activeContent)),
                          parsed_prefs.excluded_ingredients)

\* the text of _check_age_appropriateness: description, name, keyBenefits
AgeText(product) ==
    SpaceJoin(SpaceJoin(Lower(product.description), Lower(product.name)),
              Lower(product.keyBenefits))

anti_aging_terms == <<<<"a","n","t","i","-","a","g","i","n","g">>, <<"w","r","i","n","k","l","e">>, <<"f","i","r","m","i","n","g">>, <<"l","i","f","t","i","n","g">>, <<"m","a","t","u","r","e"," ","s","k","i","n">>, <<"5","0","+">>>>

_check_age_appropriateness(product, parsed_prefs) ==
    (/\ parsed_prefs.age_range_preference # NoValue
     /\ parsed_prefs.age_range_preference[1] \in {<<"S","i","x","t","e","e","n","P","l","u","s">>, <<"T","w","e","n","t","i","e","s">>})
        => KeywordMatches(anti_aging_terms, AgeText(product)) = 0

\* _apply_critical_filters: raised, or the products that pass the three checks
RECURSIVE _apply_critical_filters(_, _)
_apply_critical_filters(products, parsed_prefs) ==
    IF products = << >> THEN [raised |-> FALSE, filtered |-> << >>]
    ELSE LET product == Head(products)
             rest == _apply_critical_filters(Tail(products), parsed_prefs)
             checked == _check_allergen_safety(product, parsed_prefs)
         IN IF ~_check_skin_type_compatibility(product, parsed_prefs) THEN rest
            ELSE IF checked.raised THEN [raised |-> TRUE, filtered |-> << >>]
            ELSE IF rest.raised THEN rest
            ELSE IF ~checked.safe \/ ~_check_age_appropriateness(product, parsed_prefs)
            THEN rest
            ELSE [raised |-> FALSE, filtered |-> <<product>> \o rest.filtered]

\* 1.0 as a score of the engine, in 60ths
EngineUnit == 60

\* tone_keywords, entry "Fair", and age_keywords, entry "SixteenPlus"
tone_keywords == (<<"F","a","i","r">> :> <<<<"f","a","i","r">>, <<"l","i","g","h","t">>, <<"p","a","l","e">>, <<"p","o","r","c","e","l","a","i","n">>>>)
engine_age_keywords ==
    (<<"S","i","x","t","e","e","n","P","l","u","s">> :> <<<<"t","e","e","n">>, <<"y","o","u","n","g">>, <<"g","e","n","t","l","e">>, <<"m","i","l","d">>, <<"a","c","n","e">>, <<"o","i","l"," ","c","o","n","t","r","o","l">>>>)

\* the text of the keyword scores: name, description, keyBenefits
ScoreText(product) ==
    SpaceJoin(SpaceJoin(Lower(product.name), Lower(product.description)),
              Lower(product.keyBenefits))

_score_skin_concerns(product, parsed_prefs) ==
    IF parsed_prefs.product_concerns = {} THEN 0
    ELSE (EngineUnit * Cardinality(parsed_prefs.product_concerns \cap Range(product.concerns)))
            \div Cardinality(parsed_prefs.product_concerns)

_score_skin_tone_compatibility(product, parsed_prefs) ==
    LET tone == parsed_prefs.skin_tone_preference
        keywords == IF tone # NoValue /\ tone[1] \in DOMAIN tone_keywords
                    THEN tone_keywords[tone[1]] ELSE << >>
    IN IF keywords = << >> THEN 0
       ELSE Min((EngineUnit * KeywordMatches(keywords, ScoreText(product))) \div 2, EngineUnit)

_score_age_appropriateness(product, parsed_prefs) ==
    LET age == parsed_prefs.age_range_preference
        keywords == IF age # NoValue /\ age[1] \in DOMAIN engine_age_keywords
                    THEN engine_age_keywords[age[1]] ELSE << >>
    IN IF keywords = << >> THEN 0
       ELSE Min((EngineUnit * KeywordMatches(keywords, ScoreText(product))) \div 3, EngineUnit)

\* 0.5 when fragrance preferences are set
_score_fragrance_preferences(product, parsed_prefs) ==
    IF parsed_prefs.fragrancePreferences = << >> THEN 0 ELSE EngineUnit \div 2

\* 0.3 when shopping preferences are set
_score_shopping_preferences(product, parsed_prefs) ==
    IF parsed_prefs.shoppingPreferences = << >> THEN 0 ELSE (3 * EngineUnit) \div 10

\* the text of the hair and eye indicators: name and description
IndicatorText(product) == SpaceJoin(Lower(product.name), Lower(product.description))

hair_indicators == <<<<"s","h","a","m","p","o","o">>, <<"c","o","n","d","i","t","i","o","n","e","r">>, <<"h","a","i","r">>, <<"s","c","a","l","p">>, <<"s","t","y","l","i","n","g">>>>
eye_indicators == <<<<"e","y","e","s","h","a","d","o","w">>, <<"e","y","e","l","i","n","e","r">>, <<"m","a","s","c","a","r","a">>, <<"e","y","e">>>>

_score_hair_compatibility(product, parsed_prefs) ==
    IF parsed_prefs.hairType # << >>
       /\ KeywordMatches(hair_indicators, IndicatorText(product)) > 0
    THEN EngineUnit \div 2 ELSE 0

_score_eye_color_compatibility(product, parsed_prefs) ==
    IF parsed_prefs.eyeColor # NoValue
       /\ KeywordMatches(eye_indicators, IndicatorText(product)) > 0
    THEN (3 * EngineUnit) \div 10 ELSE 0

\* _apply_high_priority_scoring and _apply_additional_scoring: the weights 3, 2,
\* 2, 1, 1, 1 and 0.5
TotalScore(product, parsed_prefs) ==
    3 * _score_skin_concerns(product, parsed_prefs)
    + 2 * _score_skin_tone_compatibility(product, parsed_prefs)
    + 2 * _score_age_appropriateness(product, parsed_prefs)
    + _score_fragrance_preferences(product, parsed_prefs)
    + _score_shopping_preferences(product, parsed_prefs)
    + _score_hair_compatibility(product, parsed_prefs)
    + _score_eye_color_compatibility(product, parsed_prefs) \div 2

\* PreferenceRecommendationEngine.get_recommendations
get_recommendations(products, parsed_prefs, max_products) ==
    LET candidates == _apply_critical_filters(products, parsed_prefs)
        final_scores == [i \in 1..Len(candidates.filtered) |->
                            [name |-> candidates.filtered[i].name,
                             id |-> candidates.filtered[i].id,
                             total_score |-> TotalScore(candidates.filtered[i], parsed_prefs)]]
        recommendations ==
            SortDescStable(final_scores,
                           [i \in 1..Len(final_scores) |-> final_scores[i].total_score])
    IN IF candidates.raised
       THEN [raised |-> TRUE, error |-> "AttributeError"]
       ELSE IF candidates.filtered = << >>
       THEN [raised |-> FALSE, error |-> "none", success |-> FALSE,
             total_candidates |-> 0, recommendations |-> << >>]
       ELSE [raised |-> FALSE, error |-> "none", success |-> TRUE,
             total_candidates |-> Len(candidates.filtered),
             recommendations |-> Take(recommendations, max_products)]

\* str(n) of a natural number
Digits == <<"0","1","2","3","4","5","6","7","8","9">>

RECURSIVE Str(_)
Str(n) == IF n < 10 THEN <<Digits[n + 1]>> ELSE Str(n \div 10) \o <<Digits[(n % 10) + 1]>>

\* filter_products_by_user_preferences: the ids as strings, [] on any exception
filter_products_by_user_preferences(user_preferences, products_data, max_products) ==
    LET recommendations ==
            get_recommendations(products_data, EngineParsedPrefs(user_preferences),
                                max_products)
    IN IF recommendations.raised \/ ~recommendations.success THEN << >>
       ELSE [i \in 1..Len(recommendations.recommendations) |->
                Str(recommendations.recommendations[i].id)]

(***************************************************************************)
(* The rule-scored paths as a state machine (SpecRule): the products of    *)
(* the products API and the user's preference record are the world, and    *)
(* each request is answered in one step. products_table is the 'products'  *)
(* list of the API here                                                    *)
(***************************************************************************)
\* the most products asked for, per condition or in all
MaxProducts == 2

\* preference records of the rule paths: the allergen list is empty, the [0]
\* sentinel, one known id, or a known id beside an unknown one
RulePrefs ==
    [skinType : {0, 4}, skinConcerns : {<< >>, <<1>>},
     allergenicIngredients : {<< >>, <<0>>, <<107>>, <<135>>, <<107, UnknownAllergenId>>},
     ageRange : {0, 1}, skinTone : {0},
     fragrancePreferences : {<< >>, <<1>>}, hairType : {<< >>},
     shoppingPreferences : {<< >>}, eyeColor : {0}, hairColor : {0},
     favoriteBrands : {<< >>}]

\* the 'data' lists of the skin analysis: none, one or two detections, a
\* detection below the threshold, the same type detected twice, a type no
\* product matches, and two types that share a product
RuleAnalyses ==
    { << >>,
      <<[analysisType |-> <<"a","c","n","e">>, confidence |-> 900]>>,
      <<[analysisType |-> <<"D","r","y","n","e","s","s">>, confidence |-> 80 * Unit],
        [analysisType |-> <<"a","c","n","e">>, confidence |-> 600]>>,
      <<[analysisType |-> <<"e","y","e","b","a","g">>, confidence |-> 700],
        [analysisType |-> <<"O","i","l","y">>, confidence |-> 400]>>,
      <<[analysisType |-> <<"a","c","n","e">>, confidence |-> 900],
        [analysisType |-> <<"a","c","n","e">>, confidence |-> 700]>>,
      <<[analysisType |-> <<"p","o","r","e">>, confidence |-> 800],
        [analysisType |-> <<"a","c","n","e">>, confidence |-> 600]>>,
      <<[analysisType |-> <<"a","c","n","e">>, confidence |-> 900],
        [analysisType |-> <<"e","y","e","b","a","g">>, confidence |-> 700]>> }

\* user_preferences as the caller passes it: None, or the user's record
PassedPreferences(r) == IF r.with_preferences THEN Some(user_prefs) ELSE NoValue

FilterProductsBySkinAnalysis ==
    /\ pc = "idle"
    /\ \E r \in [op : {"filter_products_by_skin_analysis_api"},
                 skin_analysis_data : RuleAnalyses,
                 confidence_threshold : {DefaultThreshold, Unit},
                 max_products_per_condition : 1..MaxProducts,
                 with_preferences : BOOLEAN,
                 return_format : {"detailed", "ids_only"}] :
         /\ request' = r
         /\ response' = filter_products_by_skin_analysis_api(
                            r.skin_analysis_data, products_table,
                            r.confidence_threshold, r.max_products_per_condition,
                            PassedPreferences(r), r.return_format)
    /\ pc' = "done"
    /\ UNCHANGED <<products_table, concepts_table, user_prefs, users_table, process>>

GetRecommendations ==
    /\ pc = "idle"
    /\ \E r \in [op : {"get_recommendations"}, with_preferences : BOOLEAN,
                 max_products : 1..MaxProducts] :
         /\ request' = r
         /\ response' = get_recommendations(products_table,
                                            EngineParsedPrefs(PassedPreferences(r)),
                                            r.max_products)
    /\ pc' = "done"
    /\ UNCHANGED <<products_table, concepts_table, user_prefs, users_table, process>>

FilterProductsByUserPreferences ==
    /\ pc = "idle"
    /\ \E r \in [op : {"filter_products_by_user_preferences"}, with_preferences : BOOLEAN,
                 max_products : 1..MaxProducts] :
         /\ request' = r
         /\ response' = [raised |-> FALSE, error |-> "none",
                         product_ids |->
                             filter_products_by_user_preferences(
                                 PassedPreferences(r), products_table, r.max_products)]
    /\ pc' = "done"
    /\ UNCHANGED <<products_table, concepts_table, user_prefs, users_table, process>>

\* AllergenFilter.get_user_allergens: the names and the preferences it fetched
GetUserAllergens ==
    /\ pc = "idle"
    /\ \E ok \in BOOLEAN :
         LET preferences == get_user_analysis(user_prefs, ok) IN
         /\ request' = [op |-> "get_user_allergens", with_preferences |-> ok]
         /\ response' = [raised |-> FALSE, error |-> "none",
                         allergen_names |-> get_user_allergens(preferences),
                         preferences |-> preferences]
    /\ pc' = "done"
    /\ UNCHANGED <<products_table, concepts_table, user_prefs, users_table, process>>

InitRule ==
    /\ pc = "idle"
    /\ products_table = RuleProducts
    /\ concepts_table = ConceptPool
    /\ user_prefs \in RulePrefs
    /\ users_table = StoredUser
    /\ Constructed
    /\ calls = NoCalls
    /\ request = [op |-> "none"]
    /\ response = [raised |-> FALSE, error |-> "none"]

NextRule ==
    \/ FilterProductsBySkinAnalysis
    \/ GetRecommendations
    \/ FilterProductsByUserPreferences
    \/ GetUserAllergens
    \/ Reset

SpecRule == InitRule /\ [][NextRule]_vars

(***************************************************************************)
(* Properties of the rule-scored paths (SpecRule)                          *)
(***************************************************************************)
\* the product of the products list with the given id
RuleProductById(id) ==
    products_table[CHOOSE i \in DOMAIN products_table : products_table[i].id = id]

\* the allergen ids of the user's record that the enumeration knows
KnownDeclaredIds == SelectSeq(user_prefs.allergenicIngredients,
                              LAMBDA a : a \in DOMAIN AllergenicIngredients)

\* the concatenated contents/activeContent text of the product holds a search
\* term of a declared allergen, in any letter case
HoldsDeclaredAllergen(product) ==
    \E t \in all_search_terms(KnownAllergenNames(user_prefs.allergenicIngredients)) :
        IsSubstring(Lower(t), Lower(SpaceJoin(product.contents, product.activeContent)))

\* the ids of the products in the lists of the response at hand
ReturnedRuleIds ==
    IF response.raised THEN {}
    ELSE IF request.op = "get_recommendations"
    THEN {response.recommendations[i].id : i \in DOMAIN response.recommendations}
    ELSE IF request.return_format = "ids_only"
    THEN UNION {Range(response.results[k]) : k \in DOMAIN response.results}
    ELSE UNION {{response.results[k][i].id : i \in DOMAIN response.results[k]} :
                   k \in DOMAIN response.results}

\* C2: allergen hard pre-filter of the rule-scored paths. When the preferences
\* passed declare at least one known allergen, no product whose contents and
\* activeContent hold a search term of a declared allergen is in any list that
\* filter_products_by_skin_analysis_api or get_recommendations returns.
C2_RuleAllergenPreFilter ==
    (/\ Answered({"filter_products_by_skin_analysis_api", "get_recommendations"})
     /\ request.with_preferences
     /\ KnownDeclaredIds # << >>)
        => \A id \in ReturnedRuleIds : ~HoldsDeclaredAllergen(RuleProductById(id))

\* C2 witness: Methylparaben is declared, the analysis qualifies "acne", two
\* matching products hold "Methylparaben" and "METHYL PARABEN", one of them
\* scoring above everything returned, and the acne list and top_score come
\* back with other products
C2_Witness ==
    /\ Answered({"filter_products_by_skin_analysis_api"})
    /\ request.with_preferences
    /\ request.return_format = "detailed"
    /\ user_prefs.allergenicIngredients = <<107>>
    /\ ~response.raised
    /\ <<"a","c","n","e">> \in DOMAIN response.results
    /\ response.results[<<"a","c","n","e">>] # << >>
    /\ TopScoreKey \in DOMAIN response.results
    /\ \E i, j \in DOMAIN products_table :
          /\ i # j
          /\ HoldsDeclaredAllergen(products_table[i])
          /\ HoldsDeclaredAllergen(products_table[j])
          /\ 1 \in Range(products_table[i].concerns)
          /\ 1 \in Range(products_table[j].concerns)
          /\ \A k \in DOMAIN response.results[TopScoreKey] :
                _calculate_preference_score(products_table[i], user_prefs)
                    > response.results[TopScoreKey][k].score

\* the user's record without the allergen ids the enumeration does not know
KnownOnlyPrefs == [user_prefs EXCEPT !.allergenicIngredients = KnownDeclaredIds]

\* the allergen list mixes known ids with unknown ones
MixesUnknownIds ==
    /\ KnownDeclaredIds # << >>
    /\ \E i \in DOMAIN user_prefs.allergenicIngredients :
          /\ user_prefs.allergenicIngredients[i] # 0
          /\ user_prefs.allergenicIngredients[i] \notin DOMAIN AllergenicIngredients

\* C3: unknown allergen ids never fail a request. With an allergen list that
\* mixes known and unknown ids, get_user_allergens, the skin-analysis rule path
\* and the preference path complete without raising and answer as they do for
\* the known ids alone.
C3_UnknownIdsSkipped ==
    (/\ Answered({"get_user_allergens", "filter_products_by_skin_analysis_api",
                  "get_recommendations"})
     /\ request.with_preferences
     /\ MixesUnknownIds)
        => /\ ~response.raised
           /\ request.op = "get_user_allergens" =>
                 response.allergen_names = KnownAllergenNames(KnownDeclaredIds)
           /\ request.op = "filter_products_by_skin_analysis_api" =>
                 response = filter_products_by_skin_analysis_api(
                                request.skin_analysis_data, products_table,
                                request.confidence_threshold,
                                request.max_products_per_condition,
                                Some(KnownOnlyPrefs), request.return_format)
           /\ request.op = "get_recommendations" =>
                 response = get_recommendations(products_table,
                                                parse_preferences(KnownOnlyPrefs),
                                                request.max_products)

(***************************************************************************)
(* The scoring functions as a state machine (SpecScore): the preference    *)
(* record is the world, each call of _map_pref_concerns or of              *)
(* _calculate_preference_score on a product is answered in one step        *)
(***************************************************************************)
\* preference records with the sentinels 0 and [0], set and unset dimensions
ScorePrefs ==
    [skinType : {0, 4}, skinConcerns : {<< >>, <<0>>, <<1>>, <<1, 7>>},
     allergenicIngredients : {<< >>},
     ageRange : {0, 1}, skinTone : {0, 7},
     fragrancePreferences : {<< >>, <<0>>, <<1>>}, hairType : {<< >>},
     shoppingPreferences : {<< >>, <<1>>}, eyeColor : {0, 1}, hairColor : {0},
     favoriteBrands : {<< >>, <<0>>, <<2>>}]

\* _map_pref_concerns on the user's record
MapPrefConcerns ==
    /\ pc = "idle"
    /\ request' = [op |-> "_map_pref_concerns"]
    /\ response' = [raised |-> FALSE, error |-> "none",
                    concern_scores |-> _map_pref_concerns(user_prefs)]
    /\ pc' = "done"
    /\ UNCHANGED <<products_table, concepts_table, user_prefs, users_table, process>>

\* _calculate_preference_score on one product: the four tier scores it
\* computes (in 120ths) and the total it returns (in 1200ths)
CalculatePreferenceScore ==
    /\ pc = "idle"
    /\ \E i \in DOMAIN products_table :
         /\ request' = [op |-> "_calculate_preference_score", product |-> products_table[i]]
         /\ response' =
              [raised |-> FALSE, error |-> "none",
               critical_score |-> _score_critical_preferences(products_table[i], user_prefs),
               high_score |-> _score_high_preferences(products_table[i], user_prefs),
               medium_score |-> _score_medium_preferences(products_table[i], user_prefs),
               low_score |-> _score_low_preferences(products_table[i], user_prefs),
               total_score |-> _calculate_preference_score(products_table[i], user_prefs)]
    /\ pc' = "done"
    /\ UNCHANGED <<products_table, concepts_table, user_prefs, users_table, process>>

InitScore ==
    /\ pc = "idle"
    /\ products_table = RuleProducts
    /\ concepts_table = ConceptPool
    /\ user_prefs \in ScorePrefs
    /\ users_table = StoredUser
    /\ Constructed
    /\ calls = NoCalls
    /\ request = [op |-> "none"]
    /\ response = [raised |-> FALSE, error |-> "none"]

NextScore == MapPrefConcerns \/ CalculatePreferenceScore \/ Reset

SpecScore == InitScore /\ [][NextScore]_vars

(***************************************************************************)
(* C11: the sentinels 0 and [0] are never scored                           *)
(***************************************************************************)
\* the skin concerns are the [0] sentinel or not given
NoSkinConcerns == user_prefs.skinConcerns \in {<< >>, <<0>>}

\* the lowercased names of the skin concerns the record declares
DeclaredConcernKeys ==
    {Lower(BeautyPreferencesSkinConcern[c]) :
        c \in Range(user_prefs.skinConcerns) \cap DOMAIN BeautyPreferencesSkinConcern}

\* the CRITICAL score of the skin type alone, and of the skin concerns alone
SkinTypeAlone(product) ==
    IF user_prefs.skinType \in Range(product.skinTypes) \/ 1 \in Range(product.skinTypes)
    THEN TierUnit ELSE 0

SkinConcernsAlone(product) ==
    LET declared == Range(user_prefs.skinConcerns) \ {0} IN
    (TierUnit * Cardinality(declared \cap Range(product.concerns))) \div Cardinality(declared)

\* C11: preferences with skinType = 0 (or skinConcerns = [0]) add no key and no
\* weight to the concern weight table, and the CRITICAL tier score is the score
\* of the other dimension alone: the sentinel is not counted in scored_items.
C11_SentinelNeverScored ==
    /\ (Answered({"_map_pref_concerns"}) /\ user_prefs.skinType = 0) =>
           /\ DOMAIN response.concern_scores = DeclaredConcernKeys
           /\ \A k \in DOMAIN response.concern_scores :
                  response.concern_scores[k] =
                      Unit * Cardinality({i \in DOMAIN user_prefs.skinConcerns :
                          /\ user_prefs.skinConcerns[i] \in DOMAIN BeautyPreferencesSkinConcern
                          /\ Lower(BeautyPreferencesSkinConcern[user_prefs.skinConcerns[i]]) = k})
    /\ (Answered({"_map_pref_concerns"}) /\ user_prefs.skinConcerns = <<0>>) =>
           /\ DOMAIN response.concern_scores \subseteq
                  {Lower(BeautyPreferencesSkinType[t]) : t \in DOMAIN BeautyPreferencesSkinType}
           /\ \A k \in DOMAIN response.concern_scores : response.concern_scores[k] = Unit
    /\ (Answered({"_calculate_preference_score"}) /\ user_prefs.skinType = 0) =>
           response.critical_score =
               IF NoSkinConcerns THEN 0 ELSE SkinConcernsAlone(request.product)
    /\ (Answered({"_calculate_preference_score"}) /\ NoSkinConcerns
            /\ user_prefs.skinType # 0) =>
           response.critical_score = SkinTypeAlone(request.product)

\* C11 witness: skinType is the sentinel, the declared concern is one of the
\* product's, and the tier score is the full 1.0 (not 0.5)
C11_Witness ==
    /\ Answered({"_calculate_preference_score"})
    /\ user_prefs.skinType = 0
    /\ user_prefs.skinConcerns = <<1>>
    /\ 1 \in Range(request.product.concerns)
    /\ response.critical_score = TierUnit

(***************************************************************************)
(* The allergen resolver, the candidate scorers and the rule path's safety *)
(* check as a state machine (SpecFilter). Each scorer is called the way    *)
(* its orchestrator calls it, with what the resolver returned; the         *)
(* response records the queries the call sent to the product store.        *)
(***************************************************************************)
\* the where-clause generate_allergen_filter_sql returns beside the parameter
\* list: "" when there is no search term
AllergenWhereClause(allergen_names) ==
    IF allergen_names = << >> \/ all_search_terms(allergen_names) = {} THEN ""
    ELSE "NOT (ingredients_text ILIKE %s OR ...)"

\* the conditions _calculate_product_scores joins into its WHERE clause
ProductScoresWhere(allergen_params, max_price, include_out_of_stock) ==
    <<"embedding IS NOT NULL">>
    \o (IF allergen_params # << >> THEN <<"(allergen_where)">> ELSE << >>)
    \o (IF max_price # NoValue /\ max_price[1] # 0 THEN <<"price <= %s">> ELSE << >>)
    \o (IF ~include_out_of_stock THEN <<"stock_status = 0">> ELSE << >>)

\* the conditions _fetch_candidate_products joins into its WHERE clause
FetchCandidatesWhere(allergen_params, max_price, include_out_of_stock) ==
    <<"p.embedding IS NOT NULL">>
    \o (IF ~include_out_of_stock THEN <<"p.stock_status = 0">> ELSE << >>)
    \o (IF max_price # NoValue THEN <<"p.price <= %s">> ELSE << >>)
    \o (IF allergen_params # << >> THEN <<"(allergen_where)">> ELSE << >>)

\* a scorer that builds and sends its query whatever the embedding map holds
QueriesWithoutShortCircuit(concern_embeddings, allergen_params, max_price, include_out_of_stock) ==
    <<[table |-> "products",
       where |-> ProductScoresWhere(allergen_params, max_price, include_out_of_stock)]>>

\* the queries one call of _calculate_product_scores sends to the product
\* store: none when the embedding map is empty, else the one query, which is
\* sent whether or not the store then answers
ProductScoresQueries(concern_embeddings, allergen_params, max_price, include_out_of_stock) ==
    IF DOMAIN concern_embeddings = {} THEN << >>
    ELSE <<[table |-> "products",
            where |-> ProductScoresWhere(allergen_params, max_price, include_out_of_stock)]>>

\* the queries one call of _fetch_candidate_products sends to the product store
FetchCandidatesQueries(concern_embeddings, allergen_params, max_price, include_out_of_stock) ==
    IF DOMAIN concern_embeddings = {} THEN << >>
    ELSE <<[table |-> "products",
            where |-> FetchCandidatesWhere(allergen_params, max_price, include_out_of_stock)]>>

\* the embedding maps the scorers are called with, and the weights beside them
ScorerEmbeddings ==
    { [c \in {} |-> "NULL"],
      (<<"a","c","n","e">> :> "E_acne"),
      (<<"a","c","n","e">> :> "E_acne") @@ (<<"d","r","y","n","e","s","s">> :> "E_dryness") }

ScorerWeights == (<<"a","c","n","e">> :> 800) @@ (<<"d","r","y","n","e","s","s">> :> 900)

ScorerRequests(op) ==
    [op : {op}, concern_embeddings : ScorerEmbeddings, top_n : TopNs,
     max_price : MaxPrices, include_out_of_stock : BOOLEAN,
     preferences_ok : BOOLEAN, query_ok : BOOLEAN]

GetAllergenFilter ==
    /\ pc = "idle"
    /\ \E ok \in BOOLEAN :
         LET preferences == get_user_analysis(user_prefs, ok) IN
         /\ request' = [op |-> "_get_allergen_filter", preferences_ok |-> ok]
         /\ response' = [raised |-> FALSE, error |-> "none",
                         allergen_where |-> AllergenWhereClause(get_user_allergens(preferences)),
                         allergen_params |-> _get_allergen_filter(preferences)]
    /\ pc' = "done"
    /\ UNCHANGED <<products_table, concepts_table, user_prefs, users_table, process>>

CalculateProductScores ==
    /\ pc = "idle"
    /\ \E r \in ScorerRequests("_calculate_product_scores") :
         LET allergen_params ==
                 _get_allergen_filter(get_user_analysis(user_prefs, r.preferences_ok))
         IN /\ request' = r
            /\ response' \in
                 {[raised |-> FALSE, error |-> "none", products |-> ps,
                   queries |-> ProductScoresQueries(r.concern_embeddings, allergen_params,
                                   r.max_price, r.include_out_of_stock)] :
                     ps \in _calculate_product_scores(r.concern_embeddings, ScorerWeights,
                               allergen_params, r.top_n, r.max_price,
                               r.include_out_of_stock, products_table, r.query_ok)}
    /\ pc' = "done"
    /\ UNCHANGED <<products_table, concepts_table, user_prefs, users_table, process>>

FetchCandidateProducts ==
    /\ pc = "idle"
    /\ \E r \in ScorerRequests("_fetch_candidate_products") :
         LET allergen_params ==
                 _get_allergen_filter(get_user_analysis(user_prefs, r.preferences_ok))
         IN /\ request' = r
            /\ response' \in
                 {[raised |-> raw.raised,
                   error |-> IF raw.raised THEN "DatabaseError" ELSE "none",
                   products |-> raw.rows,
                   queries |-> FetchCandidatesQueries(r.concern_embeddings, allergen_params,
                                   r.max_price, r.include_out_of_stock)] :
                     raw \in _fetch_candidate_products(r.concern_embeddings, ScorerWeights,
                                allergen_params, r.max_price, r.include_out_of_stock,
                                r.top_n, products_table, r.query_ok)}
    /\ pc' = "done"
    /\ UNCHANGED <<products_table, concepts_table, user_prefs, users_table, process>>

IsProductSafeForUser ==
    /\ pc = "idle"
    /\ \E i \in DOMAIN RuleProducts :
         LET checked == _is_product_safe_for_user(RuleProducts[i], user_prefs) IN
         /\ request' = [op |-> "_is_product_safe_for_user", product |-> RuleProducts[i]]
         /\ response' = [raised |-> checked.raised,
                         error |-> IF checked.raised THEN "AttributeError" ELSE "none",
                         safe |-> checked.safe]
    /\ pc' = "done"
    /\ UNCHANGED <<products_table, concepts_table, user_prefs, users_table, process>>

InitFilter ==
    /\ pc = "idle"
    /\ products_table = ProductPool
    /\ concepts_table = ConceptPool
    /\ user_prefs \in StoredPrefs
    /\ users_table = StoredUser
    /\ Constructed
    /\ calls = NoCalls
    /\ request = [op |-> "none"]
    /\ response = [raised |-> FALSE, error |-> "none"]

NextFilter ==
    GetAllergenFilter \/ CalculateProductScores \/ FetchCandidateProducts
        \/ IsProductSafeForUser \/ Reset

SpecFilter == InitFilter /\ [][NextFilter]_vars

\* the user has declared no allergen: the list is empty or the [0] sentinel
NoDeclaredAllergens == user_prefs.allergenicIngredients \in {<< >>, <<0>>}

\* some condition of some query the call sent is the allergen clause
AllergenClauseSent ==
    \E i \in DOMAIN response.queries :
        \E j \in DOMAIN response.queries[i].where :
            response.queries[i].where[j] = "(allergen_where)"

\* C12: no allergens means no filter. For a user whose declared allergen list is
\* empty or the [0] sentinel, the resolver returns the empty where-clause and
\* the empty parameter list, the candidate queries carry no allergen clause,
\* and the rule path's safety check answers true for every product.
C12_NoAllergensNoFilter ==
    NoDeclaredAllergens =>
        /\ Answered({"_get_allergen_filter"}) =>
              response.allergen_where = "" /\ response.allergen_params = << >>
        /\ Answered({"_calculate_product_scores", "_fetch_candidate_products"}) =>
              ~AllergenClauseSent
        /\ Answered({"_is_product_safe_for_user"}) =>
              ~response.raised /\ response.safe

\* the sentinel user's candidate query was sent without the allergen clause and
\* brought back a product with a paraben in its ingredients
C12_Witness ==
    /\ Answered({"_fetch_candidate_products"})
    /\ user_prefs.allergenicIngredients = <<0>>
    /\ Len(response.queries) = 1
    /\ \E i \in DOMAIN response.products : response.products[i].id = 1

\* C13: empty-embedding short-circuit. Called with an empty concern-embedding
\* map, _calculate_product_scores and _fetch_candidate_products return the
\* empty list and send no query to the product store during the call.
C13_EmptyEmbeddingShortCircuit ==
    (/\ Answered({"_calculate_product_scores", "_fetch_candidate_products"})
     /\ DOMAIN request.concern_embeddings = {})
        => /\ ~response.raised
           /\ response.products = << >>
           /\ response.queries = << >>

\* a scorer was called with the empty map while the store was failing
C13_Witness ==
    /\ Answered({"_fetch_candidate_products"})
    /\ DOMAIN request.concern_embeddings = {}
    /\ ~request.query_ok
    /\ response.products = << >>

(***************************************************************************)
(* Properties of the blend of run_recommender (SpecRec)                    *)
(***************************************************************************)
\* the ids of the returned products, in the returned order
ReturnedIds == [i \in DOMAIN response.products |-> response.products[i].id]

\* the concern score of a products row under the request at hand
ConcernScoreOf(r) ==
    ScoringFormula(r.embedding, response.concern_embeddings,
                   [c \in DOMAIN response.concern_embeddings |->
                       TableGet(response.concern_scores, Lower(c), Unit)])

\* the rows that pass the filters of the candidate query
CandidateRows ==
    {r \in products_table :
        WherePriceGiven(r, ServedAllergenParams, request.max_price,
                        request.include_out_of_stock)}

\* the ids among them that the product_type filter of the request keeps
KeptByProductType(ids) ==
    SelectSeq(ids, LAMBDA id :
        request.product_type # NoValue =>
            IsSubstring(Lower(request.product_type[1]),
                        Lower(ProductById(products_table, id).name)))

\* the concern-only rankings of the request: the candidates by concern score,
\* descending, the first top_n of them, under the request's product_type
\* filter; rows of equal concern score come in either order
ConcernOnlyRankings ==
    IF DOMAIN response.concern_embeddings = {} THEN {<< >>}
    ELSE {KeptByProductType(s) :
            s \in OrderByScoreDescLimit({r.id : r \in CandidateRows},
                     [i \in {r.id : r \in CandidateRows} |->
                         ConcernScoreOf(ProductById(products_table, i))],
                     request.top_n)}

\* C14: blend-weight boundaries. With alpha = 1.0 run_recommender returns the
\* products of the concern-only ranking truncated to top_n, in the same order;
\* with alpha = 0.0 the returned products are in descending order of pref_score
\* and their final_score is the pref_score alone, whatever their concern_score.
C14_BlendWeightBoundaries ==
    (Answered({"run_recommender"}) /\ ~response.raised) =>
        /\ (request.alpha = AlphaUnit /\ ServedBeta = 0) =>
              ReturnedIds \in ConcernOnlyRankings
        /\ (request.alpha = 0 /\ ServedBeta = BetaUnit) =>
              /\ \A i, j \in DOMAIN response.products :
                    i < j => response.products[i].pref_score >= response.products[j].pref_score
              /\ \A i \in DOMAIN response.products :
                    response.products[i].final_score =
                        BetaUnit * response.products[i].pref_score

\* with alpha = 0.0 a product of lower concern score is returned ahead of one
\* of higher concern score, its profile similarity being the higher
C14_Witness ==
    /\ Answered({"run_recommender"})
    /\ request.alpha = 0
    /\ request.pref_vec = "profile"
    /\ Len(response.products) = 2
    /\ response.products[1].concern_score < response.products[2].concern_score
    /\ response.products[1].pref_score > response.products[2].pref_score

\* with alpha = 1.0 the product of lower profile similarity is returned first
C14_AlphaOneReached ==
    /\ Answered({"run_recommender"})
    /\ request.alpha = AlphaUnit
    /\ request.pref_vec = "profile"
    /\ Len(response.products) = 2
    /\ response.products[1].pref_score < response.products[2].pref_score
    /\ response.products[1].concern_score > response.products[2].concern_score

\* alpha + beta of the request at hand, in millionths
WeightSum == request.alpha * TenthOfBeta + ServedBeta

\* the request at hand was rejected: an error and no recommendation result
RejectedForWeights ==
    response.raised /\ response.error = "ValueError" /\ response.products = << >>

\* every returned product was blended with beta = 1 - alpha
BlendedWithComplement ==
    \A i \in DOMAIN response.products :
        response.products[i].final_score =
            request.alpha * response.products[i].concern_score * ConcernScale
                + (BetaUnit - request.alpha * TenthOfBeta) * response.products[i].pref_score

\* C15 as stated: blend-weight validation. run_recommender fills beta with
\* 1 - alpha when beta is unspecified, and rejects every call in which
\* alpha + beta is not equal to 1.0 with an error and no recommendation result.
C15_RejectsEverySumButOne ==
    Answered({"run_recommender"}) =>
        /\ request.beta = NoValue => ~RejectedForWeights /\ BlendedWithComplement
        /\ WeightSum # BetaUnit => RejectedForWeights

\* C15 as the code has it: blend-weight validation up to the tolerance of
\* np.isclose. run_recommender fills beta with 1 - alpha when beta is
\* unspecified, rejects every call in which alpha + beta differs from 1.0 by
\* more than 1e-8 + 1e-5 with an error and no recommendation result, and rejects
\* no call in which the sum is within that tolerance of 1.0.
C15_RejectsSumsNotCloseToOne ==
    Answered({"run_recommender"}) =>
        /\ request.beta = NoValue => ~RejectedForWeights /\ BlendedWithComplement
        /\ (WeightSum - BetaUnit > IsCloseTolerance \/ BetaUnit - WeightSum > IsCloseTolerance)
              => RejectedForWeights
        /\ (WeightSum - BetaUnit <= IsCloseTolerance /\ BetaUnit - WeightSum <= IsCloseTolerance)
              => response.error # "ValueError"

\* a call with alpha = 0.8 and beta = 0.5 was rejected
C15_Witness ==
    /\ Answered({"run_recommender"})
    /\ request.alpha = 8
    /\ request.beta = Some(500000)
    /\ RejectedForWeights

\* C16: validation precedes store access. In every run of run_recommender that
\* is rejected for invalid alpha/beta, no access to the database or to the
\* analysis or preference sources has happened before the rejection.
C16_ValidationPrecedesAccess ==
    (Answered({"run_recommender"}) /\ RejectedForWeights) => response.accesses = << >>

(***************************************************************************)
(* UserProfileTool (LLM_Tools/user_profile_tool.py): the profile text of   *)
(* the users row, its sections, and the updates of the tool                *)
(***************************************************************************)
\* str.find(sub, start) + 1: the first position from start on at which sub
\* occurs in s, 0 when there is none
Find(sub, s, start) ==
    LET hits == {i \in start..(Len(s) - Len(sub) + 1) : SubSeq(s, i, i + Len(sub) - 1) = sub}
    IN IF hits = {} THEN 0 ELSE CHOOSE i \in hits : \A j \in hits : i <= j

\* the last position of the longest run of characters outside stops that
\* starts at position b of s; b - 1 when the run is empty
RunEnd(s, b, stops) ==
    CHOOSE e \in (b - 1)..Len(s) :
        /\ \A k \in b..e : s[k] \notin stops
        /\ e = Len(s) \/ s[e + 1] \in stops

\* re.search(r'\[Header\]\.\s*(.*?)(?:\[|$)', text, re.DOTALL): group 1, the
\* text after the first "[Header]." and the whitespace behind it, up to the
\* next "[" or the end; NoValue when the header does not occur
SectionBody(header, text) ==
    LET i == Find(header \o <<".">>, text, 1)
        b == RunEnd(text, i + Len(header) + 1, {c \in Range(text) : c # " "}) + 1
    IN IF i = 0 THEN NoValue
       ELSE Some(SubSeq(text, b, RunEnd(text, b, {"["})))

\* re.findall(prefix + r'([^stops]+)', s): the captured groups, left to right
RECURSIVE FindAllCaptures(_, _, _, _)
FindAllCaptures(prefix, stops, s, start) ==
    LET i == Find(prefix, s, start)
        b == i + Len(prefix)
        e == RunEnd(s, b, stops)
    IN IF i = 0 THEN << >>
       ELSE IF e < b THEN FindAllCaptures(prefix, stops, s, i + 1)
       ELSE <<SubSeq(s, b, e)>> \o FindAllCaptures(prefix, stops, s, e + 1)

\* s.split('.')[0]
BeforeFirstDot(s) == SubSeq(s, 1, RunEnd(s, 1, {"."}))

\* sep.join(parts)
RECURSIVE JoinWith(_, _)
JoinWith(sep, parts) ==
    IF parts = << >> THEN << >>
    ELSE IF Len(parts) = 1 THEN parts[1]
    ELSE parts[1] \o sep \o JoinWith(sep, Tail(parts))

\* the structure _parse_profile_to_structure starts from
EmptyStructure ==
    [skin_type |-> << >>, skin_concerns |-> << >>, hair_goals |-> << >>,
     preferences |-> << >>, allergies |-> << >>]

\* _parse_profile_to_structure; profile_text is None for a NULL embedding_text
_parse_profile_to_structure(profile_text) ==
    IF profile_text = None \/ profile_text = << >> THEN EmptyStructure
    ELSE LET skin_match == SectionBody(<<"[","S","k","i","n"," ","P","r","o","f","i","l","e","]">>, profile_text)
             hair_match == SectionBody(<<"[","H","a","i","r"," ","P","r","o","f","i","l","e","]">>, profile_text)
             pref_match == SectionBody(<<"[","P","r","e","f","e","r","e","n","c","e","s","]">>, profile_text)
         IN [skin_type |->
                IF skin_match # NoValue /\ IsSubstring(<<"s","k","i","n"," ","t","y","p","e">>, Lower(skin_match[1]))
                THEN <<Strip(BeforeFirstDot(skin_match[1]))>> ELSE << >>,
             skin_concerns |->
                IF skin_match # NoValue /\ IsSubstring(<<"t","r","e","a","t","i","n","g">>, Lower(skin_match[1]))
                THEN FindAllCaptures(<<"t","r","e","a","t","i","n","g"," ">>, {".", ","}, Lower(skin_match[1]), 1)
                ELSE << >>,
             hair_goals |->
                IF hair_match # NoValue
                THEN FindAllCaptures(<<"w","a","n","t","s"," ","t","o"," ">>, {"."}, Lower(hair_match[1]), 1)
                ELSE << >>,
             preferences |->
                IF pref_match # NoValue
                THEN FindAllCaptures(<<"p","r","e","f","e","r","s"," ">>, {"."}, Lower(pref_match[1]), 1)
                ELSE << >>,
             allergies |->
                IF pref_match # NoValue
                THEN FindAllCaptures(<<"a","l","l","e","r","g","i","c"," ","t","o"," ">>, {"."}, Lower(pref_match[1]), 1)
                ELSE << >>]

\* _update_profile_structure: an unknown section_type is logged and the
\* structure is returned as it came
_update_profile_structure(structure, section_type, values) ==
    IF section_type \in DOMAIN structure
    THEN [structure EXCEPT ![section_type] = values]
    ELSE structure

\* [prefix + v for v in values]
Prefixed(prefix, values) == [i \in DOMAIN values |-> prefix \o values[i]]

\* _generate_profile_from_structure
_generate_profile_from_structure(structure) ==
    LET skin_parts == structure.skin_type \o Prefixed(<<"t","r","e","a","t","i","n","g"," ">>, structure.skin_concerns)
        hair_goals == Prefixed(<<"w","a","n","t","s"," ","t","o"," ">>, structure.hair_goals)
        pref_parts == Prefixed(<<"p","r","e","f","e","r","s"," ">>, structure.preferences)
                         \o Prefixed(<<"a","l","l","e","r","g","i","c"," ","t","o"," ">>, structure.allergies)
        section(header, parts) ==
            IF parts = << >> THEN << >>
            ELSE <<header \o <<"."," ">> \o JoinWith(<<"."," ">>, parts) \o <<".">>>>
    IN JoinWith(<<" ">>, section(<<"[","S","k","i","n"," ","P","r","o","f","i","l","e","]">>, skin_parts)
                            \o section(<<"[","H","a","i","r"," ","P","r","o","f","i","l","e","]">>, hair_goals)
                            \o section(<<"[","P","r","e","f","e","r","e","n","c","e","s","]">>, pref_parts))

\* the longest profile text update_profile_text stores
MaxProfileChars == 5000

\* what a method of the tool hands back: the result dict ("success" and its
\* message or error) and the users row as the method leaves it
Result(success, text, row) == [success |-> success, text |-> text, row |-> row]

\* update_profile_text: the UPDATE stores the stripped text and sets the
\* embedding to NULL
update_profile_text(row, new_profile_text) ==
    IF new_profile_text = << >> \/ Strip(new_profile_text) = << >>
    THEN Result(FALSE, "Profile text cannot be empty", row)
    ELSE IF Len(Strip(new_profile_text)) > MaxProfileChars
    THEN Result(FALSE, "Profile text too long (max 5000 characters)", row)
    ELSE Result(TRUE, "Profile text updated successfully",
                [embedding_text |-> Strip(new_profile_text), embedding |-> "NULL"])

\* update_profile_section: the current text is parsed, the section replaced,
\* the text generated anew and stored
update_profile_section(row, section_type, values) ==
    update_profile_text(row,
        _generate_profile_from_structure(
            _update_profile_structure(_parse_profile_to_structure(row.embedding_text),
                                      section_type, values)))

\* every order in which list(set(...)) may list the values
Orders(values) ==
    {s \in [1..Cardinality(Range(values)) -> Range(values)] : Range(s) = Range(values)}

\* add_to_profile_section: the results it may give
add_to_profile_section(row, section_type, new_values) ==
    LET profile_structure == _parse_profile_to_structure(row.embedding_text) IN
    IF section_type \in DOMAIN profile_structure
    THEN {update_profile_section(row, section_type, combined_values) :
            combined_values \in Orders(profile_structure[section_type] \o new_values)}
    ELSE {update_profile_section(row, section_type, new_values)}

\* remove_from_profile_section
remove_from_profile_section(row, section_type, values_to_remove) ==
    LET profile_structure == _parse_profile_to_structure(row.embedding_text) IN
    IF section_type \in DOMAIN profile_structure
    THEN update_profile_section(row, section_type,
             SelectSeq(profile_structure[section_type],
                       LAMBDA v : v \notin Range(values_to_remove)))
    ELSE Result(FALSE, "Section not found in profile", row)

\* user_profile_tool: the results it may give. new_value is a str; db_ok is
\* what test_db_connection answers when the tool is constructed
user_profile_tool(row, update_type, column, new_value, db_ok) ==
    IF ~db_ok THEN {Result(FALSE, "Database connection failed", row)}
    ELSE IF update_type = "update"
    THEN IF column = "embedding_text" THEN {update_profile_text(row, new_value)}
         ELSE {update_profile_section(row, column, <<new_value>>)}
    ELSE IF update_type = "add" THEN add_to_profile_section(row, column, <<new_value>>)
    ELSE IF update_type = "remove"
    THEN {remove_from_profile_section(row, column, <<new_value>>)}
    ELSE {Result(FALSE, "Invalid update_type", row)}

(***************************************************************************)
(* The profile tool as a state machine (SpecProfile): the users row keeps  *)
(* what a call stored for the calls that follow                            *)
(***************************************************************************)
\* the longest stored profile text a call is made on
MaxProfileLen == 150

\* users rows the calls start from: a text in the generated format or a text
\* as the tool's own example writes it, with or without an embedding
UserRows ==
    [embedding_text :
        {<<"[","S","k","i","n"," ","P","r","o","f","i","l","e","]","."," ","O","i","l","y"," ","s","k","i","n"," ","t","y","p","e","."," ","t","r","e","a","t","i","n","g"," ","a","c","n","e",".">>,
         <<"[","S","k","i","n"," ","P","r","o","f","i","l","e","]","."," ","O","i","l","y"," ","s","k","i","n"," ","t","y","p","e",","," ","t","r","e","a","t","i","n","g"," ","a","c","n","e","."," ","[","P","r","e","f","e","r","e","n","c","e","s","]","."," ","P","r","e","f","e","r","s"," ","o","i","l","s",".">>},
     embedding : {"profile", "NULL"}]

UpdateTypes == {"update", "add", "remove", "replace"}
Columns == {"embedding_text", "skin_concerns", "favorite_color"}
NewValues == {<<"r","o","s","a","c","e","a">>, <<" ">>}

UserProfileTool ==
    /\ pc = "idle"
    /\ Len(users_table.embedding_text) <= MaxProfileLen
    /\ \E t \in UpdateTypes, c \in Columns, v \in NewValues, ok \in BOOLEAN :
         \E result \in user_profile_tool(users_table, t, c, v, ok) :
            /\ request' = [op |-> "user_profile_tool", update_type |-> t, column |-> c,
                           new_value |-> v, db_ok |-> ok]
            /\ response' = [raised |-> FALSE,
                            error |-> IF result.success THEN "none" ELSE result.text,
                            returned |-> result.text]
            /\ users_table' = result.row
    /\ pc' = "done"
    /\ UNCHANGED <<products_table, concepts_table, user_prefs, process>>

InitProfile ==
    /\ pc = "idle"
    /\ products_table = ProductPool
    /\ concepts_table = ConceptPool
    /\ user_prefs = EmptyPrefs
    /\ users_table \in UserRows
    /\ Constructed
    /\ calls = NoCalls
    /\ request = [op |-> "none"]
    /\ response = [raised |-> FALSE, error |-> "none"]

NextProfile == UserProfileTool \/ Reset

SpecProfile == InitProfile /\ [][NextProfile]_vars

\* the sections a profile has
ProfileSections == DOMAIN EmptyStructure

\* C17: unrecognized update requests are rejected without effect. A call of
\* user_profile_tool with an update_type other than update, add and remove,
\* or with a section name that is not a profile section, returns an error and
\* leaves the stored embedding_text and embedding as they were.
C17_UnrecognizedRejected ==
    [][(/\ pc = "idle"
        /\ request'.op = "user_profile_tool"
        /\ \/ request'.update_type \notin {"update", "add", "remove"}
           \/ /\ request'.column \notin ProfileSections
              /\ ~(request'.update_type = "update" /\ request'.column = "embedding_text"))
            => (response'.error # "none" /\ users_table' = users_table)]_vars

\* the part of C17 about the update_type alone
C17_UnknownUpdateTypeRejected ==
    [][(/\ pc = "idle"
        /\ request'.op = "user_profile_tool"
        /\ request'.update_type \notin {"update", "add", "remove"})
            => (response'.error # "none" /\ users_table' = users_table)]_vars

(***************************************************************************)
(* Properties of the resolved concerns in the pipelines (SpecRec)          *)
(***************************************************************************)
\* the concepts of the catalog that the concern matches by one of the three
\* tests: equal normalized names, containment either way, the special table
MatchingConcepts(concern) ==
    {r \in concepts_table : ConceptMatches(NormalizeName(concern), NormalizeName(r.name))}

\* the weight the scorer of the request at hand gives a concern
ScorerWeight(c) ==
    IF request.op = "analyze_and_recommend" THEN TableGet(response.concern_scores, c, 0)
    ELSE TableGet(response.concern_scores, Lower(c), Unit)

\* the concern score the response carries for its i-th product
ReturnedConcernScore(i) ==
    IF request.op = "analyze_and_recommend" THEN response.products[i].total_score
    ELSE response.products[i].concern_score

\* the weighted concerns of the request that match no concept of the catalog
UnmatchedConcerns == {c \in DOMAIN response.concern_scores : MatchingConcepts(c) = {}}

\* C18: unmatched concerns are dropped. The map of _get_concern_embeddings has a
\* key only for a concern that matched a catalog concept by exact, containment
\* or special-table match, and gives it the embedding of such a concept; a
\* concern that matches no concept is absent from the map, and the score of
\* every returned product is the sum of the terms of the matched concerns
\* alone, whatever weight the unmatched ones carry.
C18_UnmatchedConcernsDropped ==
    (Answered({"analyze_and_recommend", "run_recommender"}) /\ ~response.raised) =>
        /\ \A c \in DOMAIN response.concern_embeddings :
              /\ c \in DOMAIN response.concern_scores
              /\ \E r \in MatchingConcepts(c) :
                    r.embedding = response.concern_embeddings[c]
        /\ \A c \in UnmatchedConcerns : c \notin DOMAIN response.concern_embeddings
        /\ \A i \in DOMAIN response.products :
              ReturnedConcernScore(i) =
                  SumOver(DOMAIN response.concern_scores \ UnmatchedConcerns,
                          [c \in DOMAIN response.concern_scores \ UnmatchedConcerns |->
                              IF c \in DOMAIN response.concern_embeddings
                              THEN ScorerWeight(c) * Similarity(ReturnedRow(i).embedding,
                                                      response.concern_embeddings[c])
                              ELSE 0])

\* products were scored for a user one of whose weighted concerns matches no
\* concept while another does
C18_Witness ==
    /\ Answered({"analyze_and_recommend", "run_recommender"})
    /\ UnmatchedConcerns # {}
    /\ \E c \in UnmatchedConcerns : response.concern_scores[c] > 0
    /\ DOMAIN response.concern_embeddings # {}
    /\ response.products # << >>

\* C19: neutral profile default. Without a profile vector every candidate's
\* pref_score is exactly 0.5 and the returned order is the concern-score
\* order; with a profile vector every candidate's pref_score lies in [0,1].
C19_NeutralProfileDefault ==
    (Answered({"run_recommender"}) /\ ~response.raised) =>
        /\ request.pref_vec = "None" =>
              /\ \A i \in DOMAIN response.products :
                    2 * response.products[i].pref_score = SimUnit
              /\ ReturnedIds \in ConcernOnlyRankings
        /\ request.pref_vec # "None" =>
              \A i \in DOMAIN response.products :
                  0 <= response.products[i].pref_score
                      /\ response.products[i].pref_score <= SimUnit

\* two products of different concern score were blended without a profile
\* vector, under weights that count both scores
C19_Witness ==
    /\ Answered({"run_recommender"})
    /\ request.pref_vec = "None"
    /\ request.alpha = 8
    /\ Len(response.products) = 2
    /\ response.products[1].concern_score > response.products[2].concern_score
    /\ response.products[1].pref_score = response.products[2].pref_score

(***************************************************************************)
(* Properties of the rule score (SpecScore)                                *)
(***************************************************************************)
\* C20: rule score range. For every product and every preferences record,
\* _calculate_preference_score returns a value in [0,1] that is
\* 0.40 * CRITICAL + 0.30 * HIGH + 0.20 * MEDIUM + 0.10 * LOW, each tier score
\* being in [0,1] itself.
C20_RuleScoreRange ==
    Answered({"_calculate_preference_score"}) =>
        /\ \A tier \in {response.critical_score, response.high_score,
                        response.medium_score, response.low_score} :
              0 <= tier /\ tier <= TierUnit
        /\ 0 <= response.total_score /\ response.total_score <= RuleScoreUnit
        /\ response.total_score =
              4 * response.critical_score + 3 * response.high_score
                  + 2 * response.medium_score + response.low_score

\* a product was scored on all four tiers: skin type and concerns, age range
\* and skin tone, a shopping preference, an eye color
C20_Witness ==
    /\ Answered({"_calculate_preference_score"})
    /\ response.critical_score = TierUnit
    /\ response.high_score > TierUnit \div 2
    /\ response.medium_score > 0
    /\ response.low_score > 0

(***************************************************************************)
(* C21: each tier averages over the dimensions the user declared           *)
(***************************************************************************)
\* a dimension is declared when it holds an id other than the sentinel 0
DeclaredId(v) == v # 0
DeclaredList(l) == Range(l) \ {0} # {}

\* the score of the age range alone: the share of its keywords in the text
AgeRangeAlone(product) ==
    IF user_prefs.ageRange \in DOMAIN filter_age_keywords
    THEN Min((TierUnit * KeywordMatches(filter_age_keywords[user_prefs.ageRange],
                                        ProductText(product)))
                 \div Len(filter_age_keywords[user_prefs.ageRange]), TierUnit)
    ELSE 0

\* the mean of the scores of the declared dimensions; 0 when none is declared.
\* dims is a sequence of <<declared, score>> pairs
DeclaredMean(dims) ==
    LET declared == {i \in DOMAIN dims : dims[i][1]} IN
    IF declared = {} THEN 0
    ELSE SumOver(declared, [i \in DOMAIN dims |-> dims[i][2]]) \div Cardinality(declared)

\* C21: in each of the four tiers the sub-score is the sum of the scores of the
\* dimensions the user declared (not absent, not the 0 / [0] sentinel) divided
\* by their number, and a tier with no declared dimension scores exactly 0; an
\* absent or sentinel dimension never changes a tier's sub-score.
C21_TierAveragesDeclaredOnly ==
    Answered({"_calculate_preference_score"}) =>
        /\ response.critical_score =
               DeclaredMean(<<<<DeclaredId(user_prefs.skinType),
                                SkinTypeAlone(request.product)>>,
                              <<DeclaredList(user_prefs.skinConcerns),
                                IF DeclaredList(user_prefs.skinConcerns)
                                THEN SkinConcernsAlone(request.product) ELSE 0>>>>)
        /\ response.high_score =
               DeclaredMean(<<<<DeclaredId(user_prefs.ageRange),
                                AgeRangeAlone(request.product)>>,
                              <<DeclaredId(user_prefs.skinTone), TierUnit \div 2>>>>)
        /\ response.medium_score =
               DeclaredMean(<<<<DeclaredList(user_prefs.fragrancePreferences),
                                (3 * TierUnit) \div 10>>,
                              <<DeclaredList(user_prefs.hairType), (3 * TierUnit) \div 10>>,
                              <<DeclaredList(user_prefs.shoppingPreferences),
                                (3 * TierUnit) \div 10>>>>)
        /\ response.low_score =
               DeclaredMean(<<<<DeclaredId(user_prefs.eyeColor), (2 * TierUnit) \div 10>>,
                              <<DeclaredId(user_prefs.hairColor), (2 * TierUnit) \div 10>>,
                              <<DeclaredList(user_prefs.favoriteBrands),
                                (2 * TierUnit) \div 10>>>>)

\* the same statement without the LOW tier, which the [0] sentinel of
\* favoriteBrands does reach
TiersAboveLowAverageDeclaredOnly ==
    Answered({"_calculate_preference_score"}) =>
        /\ response.critical_score =
               DeclaredMean(<<<<DeclaredId(user_prefs.skinType),
                                SkinTypeAlone(request.product)>>,
                              <<DeclaredList(user_prefs.skinConcerns),
                                IF DeclaredList(user_prefs.skinConcerns)
                                THEN SkinConcernsAlone(request.product) ELSE 0>>>>)
        /\ response.high_score =
               DeclaredMean(<<<<DeclaredId(user_prefs.ageRange),
                                AgeRangeAlone(request.product)>>,
                              <<DeclaredId(user_prefs.skinTone), TierUnit \div 2>>>>)
        /\ response.medium_score =
               DeclaredMean(<<<<DeclaredList(user_prefs.fragrancePreferences),
                                (3 * TierUnit) \div 10>>,
                              <<DeclaredList(user_prefs.hairType), (3 * TierUnit) \div 10>>,
                              <<DeclaredList(user_prefs.shoppingPreferences),
                                (3 * TierUnit) \div 10>>>>)

\* the favoriteBrands sentinel alone gives the LOW tier its 0.2
SentinelBrandsScored ==
    /\ Answered({"_calculate_preference_score"})
    /\ user_prefs.favoriteBrands = <<0>>
    /\ user_prefs.eyeColor = 0 /\ user_prefs.hairColor = 0
    /\ response.low_score = (2 * TierUnit) \div 10

(***************************************************************************)
(* The service process (backend_api.py) beside a long-lived analysis       *)
(* module, as a state machine (SpecProcess): app_state, default_detector   *)
(* and the module's cache live from one request to the next, the stores    *)
(* are read, and every request is answered in one step                     *)
(***************************************************************************)
\* sorted(list(all_product_ids)): the id strings in lexicographic order
RECURSIVE SortedStrs(_)
SortedStrs(S) ==
    IF S = {} THEN << >>
    ELSE Once(CHOOSE x \in S : \A y \in S : y = x \/ StrLess(x, y),
              LAMBDA first : <<first>> \o Once(S \ {first}, SortedStrs))

\* get_recommendations_by_analysis: analysis and preferences are what the two
\* upstream APIs answered (ok = FALSE: the call failed)
get_recommendations_by_analysis(products_data, analysis, preferences, confidence, max_products, include_preferences) ==
    LET user_preferences ==
            IF include_preferences /\ preferences.ok THEN Some(preferences.data) ELSE NoValue
        listed(by_condition) ==
            [raised |-> FALSE, error |-> "none",
             recommendations_by_condition |-> by_condition,
             all_product_ids |->
                 Once(UNION {Range(by_condition[k]) : k \in DOMAIN by_condition},
                      SortedStrs)]
        formatted(recommended) ==
            IF recommended.raised
            THEN [raised |-> TRUE, error |-> recommended.error]
            ELSE Once([k \in DOMAIN recommended.results |->
                          [i \in 1..Len(recommended.results[k]) |->
                              Str(recommended.results[k][i].id)]],
                      listed)
    IN IF products_data = << >> THEN [raised |-> TRUE, error |-> "HTTPException 503"]
       ELSE IF ~analysis.ok THEN [raised |-> TRUE, error |-> "HTTPException 404"]
       ELSE Once(filter_products_by_skin_analysis_api(
                     analysis.data, products_data, confidence, max_products,
                     user_preferences, "detailed"),
                 formatted)

\* get_recommendations_by_preferences
get_recommendations_by_preferences(products_data, preferences, max_products) ==
    LET answered(recommended_ids) ==
            [raised |-> FALSE, error |-> "none",
             recommended_product_ids |-> recommended_ids,
             total_recommendations |-> Len(recommended_ids)]
    IN IF products_data = << >> THEN [raised |-> TRUE, error |-> "HTTPException 503"]
       ELSE IF ~preferences.ok THEN [raised |-> TRUE, error |-> "HTTPException 503"]
       ELSE Once(filter_products_by_user_preferences(Some(preferences.data), products_data,
                                                     max_products),
                 answered)

\* what an upstream API answers: the stored data, or a failure
Upstream(stored, ok) == [ok |-> ok, data |-> stored]

GetRecommendationsByAnalysis ==
    /\ pc = "idle"
    /\ \E r \in [op : {"get_recommendations_by_analysis"},
                 skin_analysis_data : RuleAnalyses,
                 confidence : {DefaultThreshold, Unit},
                 max_products : 1..MaxProducts,
                 include_preferences : BOOLEAN,
                 analysis_ok : BOOLEAN, preferences_ok : BOOLEAN] :
         /\ request' = r
         /\ response' = get_recommendations_by_analysis(
                            app_state.products_data,
                            Upstream(r.skin_analysis_data, r.analysis_ok),
                            Upstream(user_prefs, r.preferences_ok),
                            r.confidence, r.max_products, r.include_preferences)
    /\ pc' = "done"
    /\ UNCHANGED <<products_table, concepts_table, user_prefs, users_table, process>>

GetRecommendationsByPreferences ==
    /\ pc = "idle"
    /\ \E r \in [op : {"get_recommendations_by_preferences"},
                 max_products : 1..MaxProducts, preferences_ok : BOOLEAN] :
         /\ request' = r
         /\ response' = get_recommendations_by_preferences(
                            app_state.products_data,
                            Upstream(user_prefs, r.preferences_ok), r.max_products)
    /\ pc' = "done"
    /\ UNCHANGED <<products_table, concepts_table, user_prefs, users_table, process>>

\* the preference records of the users the process serves
ProcessPrefs ==
    {p \in RulePrefs : /\ p.allergenicIngredients \in {<< >>, <<107>>}
                       /\ p.ageRange = 0 /\ p.fragrancePreferences = << >>}

InitProcess ==
    /\ pc = "idle"
    /\ products_table = ProductPool
    /\ concepts_table = ConceptPool
    /\ user_prefs \in ProcessPrefs
    /\ users_table = StoredUser
    /\ Constructed
    /\ calls = NoCalls
    /\ request = [op |-> "none"]
    /\ response = [raised |-> FALSE, error |-> "none"]

NextProcess ==
    \/ AnalyzeAndRecommend
    \/ GetRecommendationsByAnalysis
    \/ GetRecommendationsByPreferences
    \/ Reset

SpecProcess == InitProcess /\ [][NextProcess]_vars

MaxNameLen == 3

\* allergen names: every string of at most MaxNameLen of a few characters, and
\* names with a curated entry, a suffix of the suffix table or CamelCase
AllergenNamePool ==
    SeqsUpTo({"a", "O", "l", " "}, MaxNameLen)
    \cup {<<"L","e","m","o","n","O","i","l">>, <<"M","e","t","h","y","l","p","a","r","a","b","e","n">>, <<"A","r","g","a","n","O","i","l">>, <<"a","r","g","a","n"," ","o","i","l">>, <<"S","a","l","i","c","y","l","i","c","A","c","i","d">>,
          <<" "," "," ","o","i","l">>, <<"O","i","l">>, <<"B","e","n","z","y","l","A","l","c","o","h","o","l">>, <<"P","r","o","p","y","l","p","a","r","a","b","e","n">>, <<"L","a","n","o","l","i","n">>}

GenerateSearchTerms ==
    /\ pc = "idle"
    /\ \E name \in AllergenNamePool :
         /\ request' = [op |-> "generate_search_terms", allergen_name |-> name]
         /\ response' = [raised |-> FALSE, error |-> "none",
                         terms |-> generate_search_terms(name)]
    /\ pc' = "done"
    /\ UNCHANGED <<products_table, concepts_table, user_prefs, users_table, process>>

GenerateFallbackTerms ==
    /\ pc = "idle"
    /\ \E name \in AllergenNamePool :
         /\ request' = [op |-> "_generate_fallback_terms", allergen_name |-> name]
         /\ response' = [raised |-> FALSE, error |-> "none",
                         terms |-> _generate_fallback_terms(name)]
    /\ pc' = "done"
    /\ UNCHANGED <<products_table, concepts_table, user_prefs, users_table, process>>

InitTerms ==
    /\ pc = "idle"
    /\ products_table = ProductPool
    /\ concepts_table = ConceptPool
    /\ user_prefs = EmptyPrefs
    /\ users_table = StoredUser
    /\ Constructed
    /\ calls = NoCalls
    /\ request = [op |-> "none"]
    /\ response = [raised |-> FALSE, error |-> "none"]

NextTerms == GenerateSearchTerms \/ GenerateFallbackTerms \/ Reset

SpecTerms == InitTerms /\ [][NextTerms]_vars

(***************************************************************************)
(* C23: the fallback never returns an empty term list                      *)
(***************************************************************************)
\* the name of the call has no entry in the curated pattern table
NoCuratedEntry ==
    Lower(request.allergen_name) \notin DOMAIN default_detector.known_patterns

\* C23: for a non-empty allergen name without an entry in the curated pattern
\* table, generate_search_terms answers with the fallback terms, and
\* _generate_fallback_terms returns at least one term, the lower-cased name
\* itself among them.
C23_FallbackNeverEmpty ==
    /\ (Answered({"generate_search_terms"}) /\ request.allergen_name # << >>
            /\ NoCuratedEntry) =>
           /\ response.terms # {}
           /\ Lower(request.allergen_name) \in response.terms
    /\ (Answered({"_generate_fallback_terms"}) /\ request.allergen_name # << >>) =>
           /\ response.terms # {}
           /\ Lower(request.allergen_name) \in response.terms

\* C23 witness: a CamelCase name with a suffix of the table and no curated
\* entry is answered with its lower-cased form beside the forms the fallback
\* derives
C23_Witness ==
    /\ Answered({"generate_search_terms"})
    /\ request.allergen_name = <<"A","r","g","a","n","O","i","l">>
    /\ NoCuratedEntry
    /\ <<"a","r","g","a","n","o","i","l">> \in response.terms
    /\ <<"a","r","g","a","n"," ","o","i","l">> \in response.terms
    /\ Cardinality(response.terms) >= 3

(***************************************************************************)
(* C24: no product is recommended for two conditions                       *)
(***************************************************************************)
\* the analysis types of the request whose confidence reaches its threshold
QualifyingTypes ==
    {request.skin_analysis_data[i].analysisType :
        i \in {j \in DOMAIN request.skin_analysis_data :
                  request.skin_analysis_data[j].confidence >= request.confidence_threshold}}

\* the product ids the response lists under a key, in either return format
ListedIds(k) ==
    IF request.return_format = "ids_only" THEN Range(response.results[k])
    ELSE {response.results[k][i].id : i \in DOMAIN response.results[k]}

\* the request has been answered with a result
FilterAnswered == Answered({"filter_products_by_skin_analysis_api"}) /\ ~response.raised

\* C24: in the result of filter_products_by_skin_analysis_api every qualifying
\* condition has an entry (an empty list when nothing matched), no list is
\* longer than max_products_per_condition, and no product id is in the lists
\* of two different conditions.
C24_NoDuplicatesAcrossConditions ==
    FilterAnswered =>
        /\ QualifyingTypes \subseteq DOMAIN response.results
        /\ \A k \in QualifyingTypes :
               Len(response.results[k]) <= request.max_products_per_condition
        /\ \A k1, k2 \in QualifyingTypes :
               k1 # k2 => ListedIds(k1) \cap ListedIds(k2) = {}

\* C24 witness: two conditions qualify, a product that matches both is listed
\* under one of them only, and the other has its own list
C24_Witness ==
    /\ FilterAnswered
    /\ \E k1, k2 \in QualifyingTypes :
          /\ k1 # k2
          /\ ListedIds(k1) # {} /\ ListedIds(k2) # {}
          /\ \E i \in DOMAIN products_table :
                LET matches(k) ==
                        \/ Range(find_matching_ids(k).concern_ids)
                              \cap Range(products_table[i].concerns) # {}
                        \/ Range(find_matching_ids(k).skin_type_ids)
                              \cap Range(products_table[i].skinTypes) # {}
                IN /\ matches(k1) /\ matches(k2)
                   /\ products_table[i].id \in ListedIds(k1)
                   /\ products_table[i].id \notin ListedIds(k2)

\* a qualifying condition nothing matches has the empty list as its entry
EmptyEntryKept ==
    /\ FilterAnswered
    /\ \E k \in QualifyingTypes : response.results[k] = << >>

(***************************************************************************)
(* Profile writes beside the embedding generation, as a state machine      *)
(* (SpecEmbed): UserProfileTool.update_profile_text and                    *)
(* UserProfilePopulator.insert_user_profile are one UPDATE each;           *)
(* generate_embeddings_for_users (populate_user_profiles.py) selects the   *)
(* users without an embedding, and then embeds and updates them one by one *)
(* in transactions of their own, so a write may fall between its steps     *)
(***************************************************************************)
\* profile texts the writers store
DryProfile == <<"[","S","k","i","n"," ","P","r","o","f","i","l","e","]","."," ","D","r","y"," ","s","k","i","n"," ","t","y","p","e",".">>
SensitiveProfile == <<"S","e","n","s","i","t","i","v","e"," ","s","k","i","n",".">>
CombinationProfile == <<"C","o","m","b","i","n","a","t","i","o","n"," ","s","k","i","n",","," ","t","r","e","a","t","i","n","g"," ","r","e","d","n","e","s","s",".">>

\* embedding_model.embed_query: the vector of a text, one per text
embed_query(text) ==
    IF text = StoredUser.embedding_text THEN "profile"
    ELSE IF text = DryProfile THEN "E_dry"
    ELSE IF text = SensitiveProfile THEN "E_sensitive"
    ELSE IF text = CombinationProfile THEN "E_combination"
    ELSE "E_other"

\* insert_user_profile on a user that exists: the UPDATE stores the document
\* and sets the embedding to NULL
insert_user_profile(row, profile_document) ==
    [embedding_text |-> profile_document, embedding |-> "NULL"]

\* the SELECT of generate_embeddings_for_users: the users whose embedding is
\* NULL, with the text they have at that moment
users_without_embeddings(row) ==
    IF row.embedding = "NULL" THEN <<[id |-> 1, embedding_text |-> row.embedding_text]>>
    ELSE << >>

\* the UPDATE of generate_embeddings_for_users for one selected user
embedding_update(row, selected) ==
    [row EXCEPT !.embedding = embed_query(selected.embedding_text)]

\* texts passed to update_profile_text, some to be stripped, one blank
NewProfileTexts ==
    {StoredUser.embedding_text, DryProfile, <<" "," ","S","e","n","s","i","t","i","v","e"," ","s","k","i","n","."," ">>, CombinationProfile,
     <<" ">>}

UpdateProfileText ==
    /\ pc = "idle"
    /\ \E text \in NewProfileTexts :
         LET result == update_profile_text(users_table, text) IN
         /\ request' = [op |-> "update_profile_text", new_profile_text |-> text]
         /\ response' = [raised |-> FALSE,
                         error |-> IF result.success THEN "none" ELSE result.text]
         /\ users_table' = result.row
    /\ pc' = "done"
    /\ UNCHANGED <<products_table, concepts_table, user_prefs, process>>

InsertUserProfile ==
    /\ pc = "idle"
    /\ \E document \in {StoredUser.embedding_text, DryProfile, SensitiveProfile,
                       CombinationProfile} :
         /\ request' = [op |-> "insert_user_profile", profile_document |-> document]
         /\ response' = [raised |-> FALSE, error |-> "none"]
         /\ users_table' = insert_user_profile(users_table, document)
    /\ pc' = "done"
    /\ UNCHANGED <<products_table, concepts_table, user_prefs, process>>

\* generate_embeddings_for_users up to its SELECT; it returns at once when no
\* user lacks an embedding
SelectUsersWithoutEmbeddings ==
    /\ calls.generator.pc = "idle"
    /\ LET selected == users_without_embeddings(users_table) IN
       calls' = [calls EXCEPT !.generator =
                    [pc |-> IF selected = << >> THEN "idle" ELSE "selected",
                     users_without_embeddings |-> selected]]
    /\ UNCHANGED <<pc, request, response, products_table, concepts_table, user_prefs,
                   users_table, app_state, default_detector, concern_embeddings_cache>>

\* one turn of its loop: the selected text is embedded and the user updated
UpdateEmbedding ==
    /\ calls.generator.pc = "selected"
    /\ LET selected == calls.generator.users_without_embeddings IN
       /\ users_table' = embedding_update(users_table, Head(selected))
       /\ calls' = [calls EXCEPT !.generator =
                       [pc |-> IF Tail(selected) = << >> THEN "idle" ELSE "selected",
                        users_without_embeddings |-> Tail(selected)]]
    /\ UNCHANGED <<pc, request, response, products_table, concepts_table, user_prefs,
                   app_state, default_detector, concern_embeddings_cache>>

InitEmbed ==
    /\ pc = "idle"
    /\ products_table = ProductPool
    /\ concepts_table = ConceptPool
    /\ user_prefs = EmptyPrefs
    /\ users_table \in {StoredUser, [StoredUser EXCEPT !.embedding = "NULL"]}
    /\ Constructed
    /\ calls = [generator |-> [pc |-> "idle", users_without_embeddings |-> << >>]]
    /\ request = [op |-> "none"]
    /\ response = [raised |-> FALSE, error |-> "none"]

NextEmbed ==
    \/ UpdateProfileText
    \/ InsertUserProfile
    \/ SelectUsersWithoutEmbeddings
    \/ UpdateEmbedding
    \/ Reset

SpecEmbed == InitEmbed /\ [][NextEmbed]_vars

(***************************************************************************)
(* C25: a stored embedding is the embedding of the stored text             *)
(***************************************************************************)
\* C25: after any interleaving of profile-text writes with runs of
\* generate_embeddings_for_users, an embedding that is not NULL was computed
\* from the user's current embedding_text: a write leaves the embedding NULL
\* until it is regenerated from the new text.
C25_EmbeddingFresh ==
    users_table.embedding # "NULL" =>
        users_table.embedding = embed_query(users_table.embedding_text)

\* a write has been followed by a run that embedded the text it stored
RegeneratedAfterWrite ==
    /\ users_table.embedding_text = DryProfile
    /\ users_table.embedding = "E_dry"

(***************************************************************************)
(* C26: allergen filtering when the preference lookup fails                *)
(***************************************************************************)
\* the preference lookup of the request at hand failed: get_user_allergens
\* received nothing
PreferenceLookupFailed ==
    /\ Answered({"analyze_and_recommend", "run_recommender"})
    /\ request.fault = "preferences"

\* C26: in a run of the embedding-scored pipeline whose preference lookup
\* fails, no returned product holds a search term of an allergen the user has
\* declared: the failed lookup is not taken for a user without allergens.
C26_FailedLookupStillFilters ==
    (PreferenceLookupFailed /\ ~response.raised) =>
        \A i \in DOMAIN response.products :
            ~ContainsDeclaredAllergen(ReturnedRow(i).ingredients_text)

\* the run was served with the filter of a user without allergens although the
\* user has declared one
ServedAsWithoutAllergens ==
    /\ PreferenceLookupFailed
    /\ DeclaredAllergens # << >>
    /\ ServedAllergenParams = << >>
    /\ response.products # << >>

(***************************************************************************)
(* Two callers of the section methods of UserProfileTool on the same user, *)
(* as a state machine (SpecSections). A method reads the stored text with  *)
(* get_current_profile, rebuilds it and stores it with update_profile_text *)
(* each in a transaction of its own, so the steps of two calls interleave  *)
(***************************************************************************)
Callers == {"a", "b"}

\* the call each caller may make: method, section and values
SectionCalls ==
    [a |-> {[method |-> "add_to_profile_section", section_type |-> "skin_concerns",
             values |-> <<<<"r","o","s","a","c","e","a">>>>],
            [method |-> "update_profile_section", section_type |-> "hair_goals",
             values |-> <<<<"a","d","d"," ","v","o","l","u","m","e">>>>]},
     b |-> {[method |-> "add_to_profile_section", section_type |-> "skin_concerns",
             values |-> <<<<"d","r","y","n","e","s","s">>>>],
            [method |-> "add_to_profile_section", section_type |-> "preferences",
             values |-> <<<<"v","e","g","a","n"," ","p","r","o","d","u","c","t","s">>>>],
            [method |-> "remove_from_profile_section", section_type |-> "skin_concerns",
             values |-> <<<<"a","c","n","e">>>>]}]

\* a caller with no call yet
NotCalled ==
    [pc |-> "idle", method |-> "none", section_type |-> "none", values |-> << >>,
     asked |-> << >>, new_profile_text |-> << >>, success |-> FALSE,
     overlapped |-> FALSE]

\* some step of the caller's call is still to come
InFlight(c) == calls[c].pc \notin {"idle", "done"}

\* the call starts. overlapped notes, for both callers, that the other one's
\* call was in flight then
BeginCall(c) ==
    /\ calls[c].pc = "idle"
    /\ \E call \in SectionCalls[c] :
         LET other == CHOOSE o \in Callers : o # c IN
         calls' = [o \in Callers |->
                      IF o = c
                      THEN [NotCalled EXCEPT
                              !.pc = IF call.method = "update_profile_section"
                                     THEN "update_profile_section" ELSE call.method,
                              !.method = call.method,
                              !.section_type = call.section_type,
                              !.values = call.values,
                              !.asked = call.values,
                              !.overlapped = InFlight(other)]
                      ELSE [calls[o] EXCEPT !.overlapped = @ \/ InFlight(o)]]
    /\ UNCHANGED <<pc, request, response, products_table, concepts_table, user_prefs,
                   users_table, app_state, default_detector, concern_embeddings_cache>>

\* add_to_profile_section up to its call of update_profile_section: the text
\* is read and the values to store are the section's values and the new ones
ReadForAdd(c) ==
    /\ calls[c].pc = "add_to_profile_section"
    /\ LET profile_structure == _parse_profile_to_structure(users_table.embedding_text) IN
       \E combined_values \in
             (IF calls[c].section_type \in DOMAIN profile_structure
              THEN Orders(profile_structure[calls[c].section_type] \o calls[c].values)
              ELSE {calls[c].values}) :
          calls' = [calls EXCEPT ![c].pc = "update_profile_section",
                                 ![c].values = combined_values]
    /\ UNCHANGED <<pc, request, response, products_table, concepts_table, user_prefs,
                   users_table, app_state, default_detector, concern_embeddings_cache>>

\* remove_from_profile_section up to its call of update_profile_section
ReadForRemove(c) ==
    /\ calls[c].pc = "remove_from_profile_section"
    /\ LET profile_structure == _parse_profile_to_structure(users_table.embedding_text) IN
       calls' =
          IF calls[c].section_type \in DOMAIN profile_structure
          THEN [calls EXCEPT
                  ![c].pc = "update_profile_section",
                  ![c].values = SelectSeq(profile_structure[calls[c].section_type],
                                          LAMBDA v : v \notin Range(calls[c].values))]
          ELSE [calls EXCEPT ![c].pc = "done", ![c].success = FALSE]
    /\ UNCHANGED <<pc, request, response, products_table, concepts_table, user_prefs,
                   users_table, app_state, default_detector, concern_embeddings_cache>>

\* update_profile_section up to its call of update_profile_text: the text is
\* read again, the section replaced and the new text generated
ReadForUpdate(c) ==
    /\ calls[c].pc = "update_profile_section"
    /\ calls' = [calls EXCEPT
                   ![c].pc = "update_profile_text",
                   ![c].new_profile_text =
                       _generate_profile_from_structure(
                           _update_profile_structure(
                               _parse_profile_to_structure(users_table.embedding_text),
                               calls[c].section_type, calls[c].values))]
    /\ UNCHANGED <<pc, request, response, products_table, concepts_table, user_prefs,
                   users_table, app_state, default_detector, concern_embeddings_cache>>

\* update_profile_text: the generated text is stored
WriteProfileText(c) ==
    /\ calls[c].pc = "update_profile_text"
    /\ LET result == update_profile_text(users_table, calls[c].new_profile_text) IN
       /\ users_table' = result.row
       /\ calls' = [calls EXCEPT ![c].pc = "done", ![c].success = result.success]
    /\ UNCHANGED <<pc, request, response, products_table, concepts_table, user_prefs,
                   app_state, default_detector, concern_embeddings_cache>>

InitSections ==
    /\ pc = "idle"
    /\ products_table = ProductPool
    /\ concepts_table = ConceptPool
    /\ user_prefs = EmptyPrefs
    /\ users_table = StoredUser
    /\ Constructed
    /\ calls = [c \in Callers |-> NotCalled]
    /\ request = [op |-> "none"]
    /\ response = [raised |-> FALSE, error |-> "none"]

NextSections ==
    \E c \in Callers :
        \/ BeginCall(c)
        \/ ReadForAdd(c)
        \/ ReadForRemove(c)
        \/ ReadForUpdate(c)
        \/ WriteProfileText(c)

SpecSections == InitSections /\ [][NextSections]_vars

(***************************************************************************)
(* C27: no profile update is lost                                          *)
(***************************************************************************)
\* the stored profile, parsed
StoredStructure == _parse_profile_to_structure(users_table.embedding_text)

\* the stored profile shows what the caller's call was to change
Reflected(c) ==
    LET stored == StoredStructure[calls[c].section_type] IN
    IF calls[c].method = "remove_from_profile_section"
    THEN Range(calls[c].asked) \cap Range(stored) = {}
    ELSE Range(calls[c].asked) \subseteq Range(stored)

\* both calls have returned with success
BothReturned == \A c \in Callers : calls[c].pc = "done" /\ calls[c].success

\* C27: when two add_to_profile_section / remove_from_profile_section /
\* update_profile_section calls on the same user have both returned, however
\* their reads and writes interleaved, the stored profile reflects both
\* changes: two adds to the same section or to different sections both survive.
C27_NoLostUpdate == BothReturned => \A c \in Callers : Reflected(c)

\* the same for two calls of which one began after the other had returned
BothSurviveInSequence ==
    (BothReturned /\ \A c \in Callers : ~calls[c].overlapped) => \A c \in Callers : Reflected(c)

\* two adds to the same section have both returned in sequence and both values
\* are stored
AddsInSequenceStored ==
    /\ BothReturned
    /\ \A c \in Callers : ~calls[c].overlapped /\ calls[c].method = "add_to_profile_section"
    /\ {<<"r","o","s","a","c","e","a">>, <<"d","r","y","n","e","s","s">>} \subseteq Range(StoredStructure.skin_concerns)

(***************************************************************************)
(* C28: a type detected more than once                                     *)
(***************************************************************************)
\* the detections without those that repeat the type of an earlier detection
RECURSIVE OncePerType(_, _)
OncePerType(data, seen) ==
    IF data = << >> THEN << >>
    ELSE IF Head(data).analysisType \in seen THEN OncePerType(Tail(data), seen)
    ELSE <<Head(data)>> \o OncePerType(Tail(data), seen \cup {Head(data).analysisType})

\* the qualifying detections of the request, each type once
QualifyingOnce ==
    OncePerType(SelectSeq(request.skin_analysis_data,
                          LAMBDA d : d.confidence >= request.confidence_threshold), {})

\* a type qualifies more than once in the request
TypeRepeats ==
    \E i, j \in DOMAIN request.skin_analysis_data :
        /\ i < j
        /\ request.skin_analysis_data[i].analysisType
               = request.skin_analysis_data[j].analysisType
        /\ request.skin_analysis_data[i].confidence >= request.confidence_threshold
        /\ request.skin_analysis_data[j].confidence >= request.confidence_threshold

\* the answer to the request when every qualifying type is detected once
AnswerWhenDetectedOnce ==
    filter_products_by_skin_analysis_api(
        QualifyingOnce, products_table, request.confidence_threshold,
        request.max_products_per_condition, PassedPreferences(request),
        request.return_format)

\* C28: when the same analysisType occurs more than once among the detections
\* at or above the threshold, the list filter_products_by_skin_analysis_api
\* returns for that condition equals the list returned when the detection
\* occurs once.
C28_RepeatedDetectionKeepsList ==
    (FilterAnswered /\ TypeRepeats) =>
        \A k \in QualifyingTypes : response.results[k] = AnswerWhenDetectedOnce.results[k]

\* a repeated type is answered with the empty list although a single detection
\* lists a product
RepeatErasesList ==
    /\ FilterAnswered
    /\ TypeRepeats
    /\ \E k \in QualifyingTypes :
          response.results[k] = << >> /\ AnswerWhenDetectedOnce.results[k] # << >>

(***************************************************************************)
(* C29: top_score and the products cut from a list                         *)
(***************************************************************************)
\* the product matches the condition by a concern id or a skin type id
MatchesCondition(product, condition) ==
    \/ Range(find_matching_ids(condition).concern_ids) \cap Range(product.concerns) # {}
    \/ Range(find_matching_ids(condition).skin_type_ids) \cap Range(product.skinTypes) # {}

\* the product passes the allergen check of the request
PassesSafety(product) ==
    request.with_preferences => _is_product_safe_for_user(product, user_prefs).safe

\* the ids listed under some qualifying condition
ListedUnderConditions == UNION {ListedIds(k) : k \in QualifyingTypes}

\* the ids of the top_score element of a detailed answer
TopScoreIds ==
    IF request.return_format = "detailed" /\ TopScoreKey \in DOMAIN response.results
    THEN ListedIds(TopScoreKey) ELSE {}

\* every product of top_score is listed under a qualifying condition
TopScoreListed == TopScoreIds \subseteq ListedUnderConditions

\* a product that is in no list has not been left out of a list with room: every
\* qualifying condition it matches has max_products_per_condition products
CutProductsNotBarred ==
    \A i \in DOMAIN products_table : \A k \in QualifyingTypes :
        (/\ products_table[i].id # 0
         /\ MatchesCondition(products_table[i], k)
         /\ PassesSafety(products_table[i])
         /\ products_table[i].id \notin ListedUnderConditions)
        => Len(response.results[k]) = request.max_products_per_condition

\* C29: every product in the top_score list that
\* filter_products_by_skin_analysis_api returns is also in the returned list of
\* some qualifying condition, and a product cut from a condition's list by
\* max_products_per_condition is not thereby barred from the lists of later
\* conditions it matches (each type detected once).
C29_TopScoreFromRecommended ==
    (FilterAnswered /\ ~TypeRepeats) => (TopScoreListed /\ CutProductsNotBarred)

\* the answer names a product in top_score that no condition lists
TopScoreNamesCutProduct == FilterAnswered /\ ~TypeRepeats /\ ~TopScoreListed

\* a product cut from one list is missing from a later list that has room
CutProductBarred == FilterAnswered /\ ~TypeRepeats /\ ~CutProductsNotBarred

(***************************************************************************)
(* C30: a detection without a type                                         *)
(***************************************************************************)
\* the concern name of a detection whose analysisType is missing or empty
NoType == << >>

\* the request's analysis has a detection without a type that passes the
\* threshold, and the concept query answered with a non-empty catalog
TypelessDetectionResolved ==
    /\ Answered({"analyze_and_recommend", "run_recommender"})
    /\ ~response.raised
    /\ NoType \in DOMAIN response.concern_scores
    /\ request.fault # "concepts"
    /\ available_concepts(concepts_table) # << >>

\* C30: a detection whose analysisType is missing or empty does not resolve to
\* any concept in _get_concern_embeddings and adds no term to the scoring
\* expression, for every non-empty concept catalog.
C30_TypelessDetectionNeverScores ==
    TypelessDetectionResolved =>
        /\ NoType \notin DOMAIN response.concern_embeddings
        /\ (DOMAIN response.concern_scores = {NoType} => response.products = << >>)

\* the typeless detection has been given the embedding of the first concept of
\* the catalog and products have been scored against it
TypelessDetectionScored ==
    /\ TypelessDetectionResolved
    /\ response.concern_embeddings[NoType] = available_concepts(concepts_table)[1].embedding
    /\ response.products # << >>
====
